---- MODULE Spec2Model ----
(***************************************************************************)
(* navwarns: model of the NAVWARN / PRIP text-to-record parsing engine     *)
(* (scripts/parser.py) and of the serialisers that sit on top of it.       *)
(*                                                                         *)
(* Text is modelled as a sequence of lines; a line is a record             *)
(*   [lead : leading whitespace?, toks : sequence of tokens,               *)
(*    trail : trailing whitespace?]                                         *)
(* and a token is one whitespace-delimited lexeme of the bulletin:         *)
(*   k = "w"    a word (w = its text)                                      *)
(*   k = "dtg"  a date-time group `DDHHMMZ MON YY' (d = which one)         *)
(*   k = "id"   a message identifier (w = scheme, d = number, m = yy,      *)
(*              x = 1 when a parenthesised subregion suffix follows)       *)
(*   k = "ref"  a bare reference `n/yy' (d = number, m = yy)               *)
(*   k = "date" a day and a month without a year `DD MON' (d = day,        *)
(*              m = month)                                                  *)
(*   k = "num"  a decimal number (d = value in tenths)                     *)
(*   k = "enum" an enumeration marker `A.' / `1.' (w = letter or number)   *)
(*   k = "lat" / "lon"  one coordinate token (d = degrees, m = minutes,    *)
(*              x = fraction, fmt = notation, w = hemisphere letter)       *)
(* Angles are integers in units of 1/180000 degree (one thousandth of a    *)
(* minute is 3 units, one second is 50 units).                             *)
(***************************************************************************)
EXTENDS Integers, Sequences, FiniteSets, TLC

VARIABLES text, messages, pc, body, msg, feats, geom, hazard, segs,
          decimal, evaluation, now, files, written, forced, clock, pages, fetched

vars == <<text, messages, pc, body, msg, feats, geom, hazard, segs,
          decimal, evaluation, now, files, written, forced, clock, pages, fetched>>

(* ------------------------------ bounds --------------------------------- *)
MaxLines == 3            \* lines of a bulletin handed to parse_navwarns
MaxCoords == 5           \* coordinates of a body without enumerated groups
MaxGroupLines == 3       \* coordinate lines of a body with enumerated groups
MaxWords == 4            \* words of a body handed to classify_hazard
MaxRecLines == 2         \* lines of a body handed to the record factories
MaxEvalLines == 3        \* lines of a body whose feature is evaluated
MaxStore == 2            \* messages handed to the storage layer in one run
MaxRuns == 2             \* runs of a scraper over the same messages
MaxClockLines == 2       \* lines of a bulletin parsed at two points in time
MaxTicks == 2            \* years the clock advances between parses
MaxMarks == 3            \* lines of a PRIP body that lists navigation marks
MaxPage == 1             \* PRIPs listed on the page of one region

(* ------------------------------ tokens --------------------------------- *)
Tok(k, w, d, m, x, fmt) == [k |-> k, w |-> w, d |-> d, m |-> m, x |-> x, fmt |-> fmt]
W(s) == Tok("w", s, 0, 0, 0, "")
\* d = day/hour/minute ordinal (0: digits that are no calendar date), m = month, x = yy
DTG(i) == Tok("dtg", "", i, 8, 25, "")
\* the same group written `DDHHMM UTC MON YY'
UTC(i) == Tok("utc", "", i, 8, 25, "")
Id(scheme, n, yy, sub) == Tok("id", scheme, n, yy, sub, "")
Ref(n, yy) == Tok("ref", "", n, yy, 0, "")
DayMonth(d, m) == Tok("date", "", d, m, 0, "")
Num(tenths) == Tok("num", "", tenths, 0, 0, "")
Enum(s) == Tok("enum", s, 0, 0, 0, "")
Lat(d, m, x, h) == Tok("lat", h, d, m, x, "DM")
Lon(d, m, x, h) == Tok("lon", h, d, m, x, "DM")

Line(toks) == [lead |-> FALSE, toks |-> toks, trail |-> FALSE]
Indented(toks) == [lead |-> TRUE, toks |-> toks, trail |-> FALSE]
Trailing(toks) == [lead |-> FALSE, toks |-> toks, trail |-> TRUE]

(* sequences of length 0..n over S *)
SeqUpTo(S, n) == UNION {[1..k -> S] : k \in 0..n}

RECURSIVE Flatten(_)
Flatten(ls) == IF ls = <<>> THEN <<>> ELSE Head(ls).toks \o Flatten(Tail(ls))

RECURSIVE ConcatAll(_)
ConcatAll(ss) == IF ss = <<>> THEN <<>> ELSE Head(ss) \o ConcatAll(Tail(ss))

Abs(a) == IF a < 0 THEN 0 - a ELSE a
Max(a, b) == IF a >= b THEN a ELSE b

(* ---------------------- str.strip() on whole texts ---------------------- *)
IsBlank(l) == l.toks = <<>>

RECURSIVE DropLeadingBlank(_)
DropLeadingBlank(ls) ==
    IF ls = <<>> THEN <<>>
    ELSE IF IsBlank(Head(ls)) THEN DropLeadingBlank(Tail(ls)) ELSE ls

RECURSIVE DropTrailingBlank(_)
DropTrailingBlank(ls) ==
    IF ls = <<>> THEN <<>>
    ELSE IF IsBlank(ls[Len(ls)]) THEN DropTrailingBlank(SubSeq(ls, 1, Len(ls) - 1))
    ELSE ls

(* "\n".join(lines).strip(): blank lines at both ends go, and so does the *)
(* whitespace before the first and after the last lexeme                  *)
Strip(ls) ==
    LET core == DropTrailingBlank(DropLeadingBlank(ls))
        n == Len(core)
    IN  [i \in 1..n |->
            [lead  |-> IF i = 1 THEN FALSE ELSE core[i].lead,
             toks  |-> core[i].toks,
             trail |-> IF i = n THEN FALSE ELSE core[i].trail]]

(* raw_line.rstrip() *)
RStrip(l) == [lead |-> IF IsBlank(l) THEN FALSE ELSE l.lead, toks |-> l.toks, trail |-> FALSE]

(* DTG_LINE_PATTERN.match(line): ^\d{6}Z [A-Z]{3} \d{2}\s*$ *)
DTG_LINE_PATTERN(l) == ~l.lead /\ Len(l.toks) = 1 /\ l.toks[1].k = "dtg"

(* -------------------------- coordinate lexer --------------------------- *)
Unit == 180000           \* model units per degree
NoValue == [ok |-> FALSE, v |-> 0]
Value(v) == [ok |-> TRUE, v |-> v]

(* str.maketrans({"С": "N", "Ю": "S", "В": "E", "З": "W"}) on a hemisphere *)
(* letter; the Cyrillic letters are written "cyrN", "cyrS", "cyrE", "cyrW" *)
translit_map(h) ==
    CASE h = "cyrN" -> "N"
      [] h = "cyrS" -> "S"
      [] h = "cyrE" -> "E"
      [] h = "cyrW" -> "W"
      [] OTHER -> h

Translit(t) == IF t.k \in {"lat", "lon"} THEN [t EXCEPT !.w = translit_map(t.w)] ELSE t

(* coord_to_decimal: DMS first, then DM with a decimal fraction; anything *)
(* else is None. Notations (fmt): "DMS" = DD-MM-SS, "DM" = DD-MM.mmm,     *)
(* "DM0" = DD-MM without a fraction, "D1M" = D-MM.mmm with the degrees    *)
(* written as one digit; both patterns take any number of degree digits   *)
coord_to_decimal(t) ==
    IF t.k \notin {"lat", "lon"} \/ t.w \notin {"N", "S", "E", "W"} THEN NoValue
    ELSE LET sign == IF t.w \in {"S", "W"} THEN -1 ELSE 1
         IN  IF t.fmt = "DMS" THEN Value(sign * (t.d * Unit + t.m * 3000 + t.x * 50))
             ELSE IF t.fmt \in {"DM", "D1M"}
             THEN Value(sign * (t.d * Unit + t.m * 3000 + t.x * 3))
             ELSE NoValue

(* _LAT_PART[NS] and _LON_PART[EW] of COORD_PATTERN *)
LAT_PART(t) == t.k = "lat" /\ t.fmt \in {"DM", "DMS"} /\ t.w \in {"N", "S"}
LON_PART(t) == t.k = "lon" /\ t.fmt \in {"DM", "DMS"} /\ t.w \in {"E", "W"}

(* COORD_PATTERN.findall(s): leftmost non-overlapping (lat, lon) pairs *)
RECURSIVE COORD_PATTERN(_)
COORD_PATTERN(toks) ==
    IF Len(toks) < 2 THEN <<>>
    ELSE IF LAT_PART(toks[1]) /\ LON_PART(toks[2])
         THEN <<<<toks[1], toks[2]>>>> \o COORD_PATTERN(SubSeq(toks, 3, Len(toks)))
         ELSE COORD_PATTERN(Tail(toks))

RECURSIVE Decode(_)
Decode(pairs) ==
    IF pairs = <<>> THEN <<>>
    ELSE LET lat_dec == coord_to_decimal(Head(pairs)[1])
             lon_dec == coord_to_decimal(Head(pairs)[2])
         IN  (IF lat_dec.ok /\ lon_dec.ok THEN <<<<lat_dec.v, lon_dec.v>>>> ELSE <<>>)
             \o Decode(Tail(pairs))

parse_coordinates(b) ==
    LET flat == Flatten(b)
        norm_body == [i \in 1..Len(flat) |-> Translit(flat[i])]
    IN  Decode(COORD_PATTERN(norm_body))

(* enum_pattern.match(line) with line = raw.strip(): ^\s*(?:[A-Z]|\d{1,2})\. *)
enum_pattern(l) == l.toks # <<>> /\ l.toks[1].k = "enum"

(* the loop of parse_coordinate_groups; st = [groups, current] *)
RECURSIVE GroupLoop(_, _)
GroupLoop(ls, st) ==
    IF ls = <<>> THEN st
    ELSE LET line == Head(ls)
             flushed == IF enum_pattern(line) /\ st.current # <<>>
                        THEN [groups |-> Append(st.groups, st.current), current |-> <<>>]
                        ELSE st
             found == Decode(COORD_PATTERN(line.toks))
         IN  GroupLoop(Tail(ls), [groups |-> flushed.groups, current |-> flushed.current \o found])

parse_coordinate_groups(b) ==
    LET st == GroupLoop(b, [groups |-> <<>>, current |-> <<>>])
    IN  IF st.current # <<>> THEN Append(st.groups, st.current) ELSE st.groups

(* ------------------------- keyword matching ---------------------------- *)
(* str.upper() on a word; the lower-case words of the vocabulary *)
Upper(w) ==
    CASE w = "derelict" -> "DERELICT"
      [] w = "adrift" -> "ADRIFT"
      [] w = "cancel" -> "CANCEL"
      [] w = "ru_otm" -> "RU_OTM"
      [] w = "ru_prip" -> "RU_PRIP"
      [] w = "ru_murmansk" -> "RU_MURMANSK"
      [] w = "ru_karta" -> "RU_KARTA"
      [] OTHER -> w

(* keywords that occur inside a longer word of the vocabulary *)
Inside(w) ==
    CASE w = "AREAS" -> {"AREA"}
      [] w = "BOUNDED" -> {"BOUND"}
      [] w = "BOUNDARY" -> {"BOUND"}
      [] w = "WELLHEAD" -> {"WELL", "HEAD"}
      [] w = "LIGHTHOUSE" -> {"LIGHT"}
      [] w = "ICEBERGS" -> {"ICEBERG", "BERGS"}
      [] w = "VESSELS" -> {"VESSEL"}
      [] w = "SHOALS" -> {"SHOAL"}
      [] w = "CANCELLED" -> {"CANCEL"}
      [] OTHER -> {}

(* `kw in text' for a one-word keyword, text = body.upper() *)
InText(kw, b) ==
    \E i \in 1..Len(b) : \E j \in 1..Len(b[i].toks) :
        LET t == b[i].toks[j]
        IN  t.k = "w" /\ (Upper(t.w) = kw \/ kw \in Inside(Upper(t.w)))

(* `"A B" in text' for a two-word keyword: the words stand next to each *)
(* other on one line                                                    *)
PhraseInText(a, c, b) ==
    \E i \in 1..Len(b) : \E j \in 1..(Len(b[i].toks) - 1) :
        /\ b[i].toks[j].k = "w" /\ Upper(b[i].toks[j].w) = a
        /\ b[i].toks[j + 1].k = "w" /\ Upper(b[i].toks[j + 1].w) = c

(* ------------------------- analyze_geometry ---------------------------- *)
NoRadius == -1

(* circle_pattern: (WITHIN\s+)?(\d+(?:\.\d+)?)\s*(NM|NAUTICAL MILES?|MILES?|MILE)\s+RADIUS *)
(* searched in the whole text; the result is the index of the number of  *)
(* the leftmost match in the flattened text, 0 when there is none        *)
IsUnit(t) == t.k = "w" /\ Upper(t.w) \in {"NM", "MILES", "MILE"}
IsRadiusWord(t) == t.k = "w" /\ Upper(t.w) = "RADIUS"

CircleMatches(flat) ==
    {i \in 1..(Len(flat) - 2) :
        flat[i].k = "num" /\ IsUnit(flat[i + 1]) /\ IsRadiusWord(flat[i + 2])}

circle_pattern(b) ==
    LET flat == Flatten(b)
        ms == CircleMatches(flat)
    IN  IF ms = {} THEN 0 ELSE CHOOSE i \in ms : \A j \in ms : i <= j

(* re.search(r"\b1\.\s", text): a marker `1.' with whitespace after it *)
OneMarker(b) ==
    \E i \in 1..Len(b) : \E j \in 1..Len(b[i].toks) :
        /\ b[i].toks[j].k = "enum" /\ b[i].toks[j].w = "1"
        /\ (j < Len(b[i].toks) \/ b[i].trail \/ i < Len(b))

feature_terms == {"WELL", "BUOY", "HEAD", "PLATFORM", "STATION", "LIGHT", "BEACON"}

(* "RU_RAYONE" stands for the Russian area word of polygon_keywords *)
PolygonKeyword(b) ==
    \/ PhraseInText("AREA", "BOUNDED", b)
    \/ InText("RU_RAYONE", b)

Tolerance == 18          \* 1e-4 degree in model units

FirstNearLast(coords) ==
    LET f == coords[1]
        l == coords[Len(coords)]
    IN  Abs(f[1] - l[1]) < Tolerance /\ Abs(f[2] - l[2]) < Tolerance

(* analyze_geometry(body, coords): the chain of `if's of the source, each *)
(* step taking the geometry chosen so far ("" is None)                    *)
geo_circle(b, coords) == IF circle_pattern(b) # 0 /\ coords # <<>> THEN "circle" ELSE ""

geo_multipoint(g, b, coords) ==
    IF Len(coords) >= 2 /\ OneMarker(b) /\ (\E term \in feature_terms : InText(term, b))
    THEN "multipoint" ELSE g

(* variant: the keyword rule without its `not geometry' guard *)
geo_keyword_Unguarded(g, b, coords) ==
    IF Len(coords) >= 3 /\ PolygonKeyword(b) THEN "polygon" ELSE g

geo_keyword(g, b, coords) ==
    IF g = "" /\ Len(coords) >= 3 /\ PolygonKeyword(b) THEN "polygon" ELSE g

geo_closed(g, b, coords) ==
    IF g = "" /\ Len(coords) >= 4 /\ FirstNearLast(coords) THEN "polygon" ELSE g

geo_line(g, b, coords) ==
    IF g = "" /\ (PhraseInText("ALONG", "LINE", b) \/ (Len(coords) >= 5 /\ Len(coords) # 4))
    THEN "linestring" ELSE g

geo_fallback(g, b, coords) ==
    IF g = "" /\ Len(coords) > 1
    THEN IF Len(coords) = 4 /\ InText("AREA", b) /\ InText("BOUND", b)
         THEN "polygon"
         ELSE IF Len(coords) > 2 THEN "linestring" ELSE "point"
    ELSE g

analyze_geometry(b, coords) ==
    LET c == circle_pattern(b)
        g0 == geo_circle(b, coords)
        g1 == IF g0 # "circle"
              THEN geo_fallback(geo_line(geo_closed(geo_keyword(
                       geo_multipoint(g0, b, coords), b, coords), b, coords), b, coords), b, coords)
              ELSE g0
    IN  [geometry |-> IF g1 = "" THEN "point" ELSE g1,
         radius   |-> IF g0 = "circle" THEN Flatten(b)[c].d ELSE NoRadius]

(* -------------------------- classify_hazard ---------------------------- *)
(* a keyword is a sequence of words; Russian keywords are transliterated  *)
(* and prefixed RU_                                                       *)
KwIn(kw, b) ==
    IF Len(kw) = 1 THEN InText(kw[1], b)
    ELSE \E i \in 1..Len(b) : \E j \in 1..(Len(b[i].toks) - Len(kw) + 1) :
            \A n \in 1..Len(kw) :
                b[i].toks[j + n - 1].k = "w" /\ Upper(b[i].toks[j + n - 1].w) = kw[n]

AnyIn(kws, b) == \E kw \in kws : KwIn(kw, b)

DerelictA == {<<"DERELICT">>, <<"RU_BROSHENN">>, <<"RU_BEZ", "RU_EKIPAZHA">>}
DerelictB == {<<"ADRIFT">>, <<"RU_DREYF">>, <<"M/V">>, <<"VESSEL">>, <<"RU_SUDNO">>,
              <<"RU_KORABL">>}
ShoalKw == {<<"SHOAL">>, <<"SHALLOW">>, <<"BANK">>, <<"RU_MEL">>, <<"RU_MELI">>,
            <<"RU_OTMEL">>, <<"RU_MALYE", "RU_GLUBINY">>, <<"RU_BANKA">>, <<"RU_BANKI">>}
AidA == {<<"RACON">>, <<"RU_RAKON">>, <<"LIGHT">>, <<"RU_OGN">>, <<"RU_MAYAK">>,
         <<"RU_BUY">>, <<"BEACON">>, <<"RU_PRICHALNYY", "RU_OGON">>}
AidB == {<<"INOPERATIVE">>, <<"UNLIT">>, <<"DAMAGED">>, <<"EXTINGUISHED">>,
         <<"NOT", "OPERATIVE">>, <<"RU_NE", "RU_RABOTAET">>, <<"RU_NEISPRAVEN">>,
         <<"RU_NE", "RU_ISPRAVEN">>, <<"RU_NE", "RU_GORIT">>, <<"RU_POGASHEN">>,
         <<"RU_POVREZHD">>, <<"RU_SNESEN">>, <<"RU_SNESYON">>, <<"RU_SNESENA">>}
HazOpsKw == {<<"ROCKET">>, <<"MISSILE">>, <<"FIRING">>, <<"GUNNERY">>, <<"LIVE", "FIRE">>,
             <<"HAZARDOUS", "OPERATIONS">>, <<"HAZ", "OPS">>, <<"RU_RAKET">>, <<"RU_PUSK">>,
             <<"RU_STRELB">>, <<"RU_ARTILLERIYSKIE">>, <<"RU_ARTILLERIYSKAYA">>,
             <<"RU_BOEVYE", "RU_STRELBY">>, <<"RU_OPASNYE", "RU_RABOTY">>,
             <<"RU_OPASNYY", "RU_RAYON">>, <<"RU_OPASNYE", "RU_RAYONY">>,
             <<"RU_MINOPODRYV">>, <<"RU_MINOVZRYV">>, <<"RU_MINORABOTY">>}
MooringKw == {<<"MOORING">>, <<"SCIENTIFIC", "MOORING">>, <<"OCEANOGRAPHIC">>,
              <<"SCIENTIFIC", "BUOY">>, <<"RU_YAKORN">>, <<"RU_BUY", "RU_S", "RU_KABEL">>,
              <<"RU_NAUCHN">>, <<"RU_OKEANOGRAFICHESK">>}
ChartA == {<<"ENC">>, <<"RU_ENK">>, <<"RU_ELEKTRONNAYA", "RU_NAVIGATSIONNAYA", "RU_KARTA">>}
ChartB == {<<"CANCELLED">>, <<"CANCELED">>, <<"WITHDRAWN">>, <<"SUSPENDED">>,
           <<"RU_OTMENENA">>, <<"RU_OTMENYONA">>, <<"RU_OTMENEN">>, <<"RU_SNYATA">>,
           <<"RU_SNYAT">>, <<"RU_ANNULIROVANA">>, <<"RU_OBNOVLENA">>, <<"RU_OBNOVLYONA">>}
IceKw == {<<"ICEBERG">>, <<"ICEBERGS">>, <<"BERGS">>, <<"SEA", "ICE">>, <<"PACK", "ICE">>,
          <<"DRIFT", "ICE">>, <<"ICE", "EDGE">>, <<"POLYNYA">>, <<"RU_LYOD">>, <<"RU_LED">>,
          <<"RU_LDY">>, <<"RU_DREYFUYUSHCHIY", "RU_LYOD">>, <<"RU_DREYFUYUSHCHIY", "RU_LED">>,
          <<"RU_DREYF", "RU_LDA">>, <<"RU_SPLOCHENNYY", "RU_LYOD">>,
          <<"RU_SPLOCHENNYY", "RU_LED">>, <<"RU_PRIPAY">>, <<"RU_KROVAT", "RU_LDA">>,
          <<"RU_AYSBERG">>, <<"RU_AYSBERGI">>, <<"RU_KROMKA", "RU_LDA">>, <<"RU_POLYNYA">>}

(* variant: the shoals rule is tried before the derelict rule *)
classify_hazard_ShoalsFirst(b) ==
    IF b = <<>> THEN "general"
    ELSE IF AnyIn(ShoalKw, b) THEN "shoals"
    ELSE IF AnyIn(DerelictA, b) /\ AnyIn(DerelictB, b) THEN "derelict vessel"
    ELSE IF AnyIn(AidA, b) /\ AnyIn(AidB, b) THEN "aid to navigation outage"
    ELSE IF AnyIn(HazOpsKw, b) THEN "hazardous operations"
    ELSE IF AnyIn(MooringKw, b) THEN "scientific mooring"
    ELSE IF AnyIn(ChartA, b) /\ AnyIn(ChartB, b) THEN "chart advisory"
    ELSE IF AnyIn(IceKw, b) THEN "ice and icebergs"
    ELSE "general"

classify_hazard(b) ==
    IF b = <<>> THEN "general"
    ELSE IF AnyIn(DerelictA, b) /\ AnyIn(DerelictB, b) THEN "derelict vessel"
    ELSE IF AnyIn(ShoalKw, b) THEN "shoals"
    ELSE IF AnyIn(AidA, b) /\ AnyIn(AidB, b) THEN "aid to navigation outage"
    ELSE IF AnyIn(HazOpsKw, b) THEN "hazardous operations"
    ELSE IF AnyIn(MooringKw, b) THEN "scientific mooring"
    ELSE IF AnyIn(ChartA, b) /\ AnyIn(ChartB, b) THEN "chart advisory"
    ELSE IF AnyIn(IceKw, b) THEN "ice and icebergs"
    ELSE "general"

(* ------------------------- cancellations ------------------------------ *)
(* a captured target: form = "" for a bare `n/yy', "HYDROARC" for          *)
(* `HYDROARC n/yy', "THIS MSG" / "THIS MESSAGE" / "RU_ETOT RU_NR" for the  *)
(* self-cancellation forms, with " UTC" appended where the date-time      *)
(* group is written `DDHHMM UTC MON YY';                                  *)
(* forms that carry a date-time group (d = which one)                      *)
Target(form, n, yy, d) == [form |-> form, n |-> n, yy |-> yy, d |-> d]

(* CANCEL_PATTERN.findall over one line, from token i on: the word CANCEL, *)
(* one space, and one of the target forms                                  *)
RECURSIVE CANCEL_PATTERN(_, _)
CANCEL_PATTERN(toks, i) ==
    IF i >= Len(toks) THEN <<>>
    ELSE IF toks[i].k = "w" /\ toks[i].w = "CANCEL"
    THEN LET t == toks[i + 1]
         IN  IF t.k = "id" /\ t.w = "HYDROARC"
             THEN <<Target("HYDROARC", t.d, t.m, 0)>> \o CANCEL_PATTERN(toks, i + 2)
             ELSE IF t.k = "ref"
             THEN <<Target("", t.d, t.m, 0)>> \o CANCEL_PATTERN(toks, i + 2)
             ELSE IF /\ i + 3 <= Len(toks)
                     /\ t.k = "w" /\ t.w = "THIS"
                     /\ toks[i + 2].k = "w" /\ toks[i + 2].w \in {"MSG", "MESSAGE"}
                     /\ toks[i + 3].k \in {"dtg", "utc"}
             THEN <<Target((IF toks[i + 2].w = "MSG" THEN "THIS MSG" ELSE "THIS MESSAGE")
                               \o (IF toks[i + 3].k = "utc" THEN " UTC" ELSE ""),
                           0, 0, toks[i + 3].d)>>
                      \o CANCEL_PATTERN(toks, i + 4)
             ELSE CANCEL_PATTERN(toks, i + 1)
    ELSE CANCEL_PATTERN(toks, i + 1)

(* PRIP_CANCEL_PATTERN.findall over one line *)
RECURSIVE PRIP_CANCEL_PATTERN(_, _)
PRIP_CANCEL_PATTERN(toks, i) ==
    IF i >= Len(toks) THEN <<>>
    ELSE IF toks[i].k = "w" /\ toks[i].w = "RU_OTM"
    THEN LET t == toks[i + 1]
         IN  IF t.k = "ref"
             THEN <<Target("", t.d, t.m, 0)>> \o PRIP_CANCEL_PATTERN(toks, i + 2)
             ELSE IF /\ i + 3 <= Len(toks)
                     /\ t.k = "w" /\ t.w = "RU_ETOT"
                     /\ toks[i + 2].k = "w" /\ toks[i + 2].w = "RU_NR"
                     /\ toks[i + 3].k = "dtg"
             THEN <<Target("RU_ETOT RU_NR", 0, 0, toks[i + 3].d)>>
                      \o PRIP_CANCEL_PATTERN(toks, i + 4)
             ELSE PRIP_CANCEL_PATTERN(toks, i + 1)
    ELSE PRIP_CANCEL_PATTERN(toks, i + 1)

(* c.endswith(m) for m = `n/yy': the decimal digits of n end those of c *)
Digits10(n) == IF n < 10 THEN 10 ELSE IF n < 100 THEN 100 ELSE 1000

endswith(c, m) ==
    c.form \in {"", "HYDROARC"} /\ c.yy = m.yy /\ c.n % Digits10(m.n) = m.n

(* re.findall(r"\b(\d+/\d+)\b", line): the n/yy of every bare reference *)
(* and of every identifier of the line                                   *)
RECURSIVE SlashTokens(_)
SlashTokens(toks) ==
    IF toks = <<>> THEN <<>>
    ELSE (IF Head(toks).k \in {"ref", "id"}
          THEN <<Target("", Head(toks).d, Head(toks).m, 0)>> ELSE <<>>)
         \o SlashTokens(Tail(toks))

(* the inner loop `for m in re.findall(...)' *)
RECURSIVE TokenLoop(_, _)
TokenLoop(ms, cancels) ==
    IF ms = <<>> THEN cancels
    ELSE LET m == Head(ms)
         IN  IF \E k \in 1..Len(cancels) : endswith(cancels[k], m)
             THEN TokenLoop(Tail(ms), cancels)
             ELSE TokenLoop(Tail(ms), Append(cancels, m))

(* the outer loop `for line in body.splitlines()', kw in line.upper() *)
RECURSIVE LineLoop(_, _, _)
LineLoop(kw, ls, cancels) ==
    IF ls = <<>> THEN cancels
    ELSE IF InText(kw, <<Head(ls)>>)
    THEN LineLoop(kw, Tail(ls), TokenLoop(SlashTokens(Head(ls).toks), cancels))
    ELSE LineLoop(kw, Tail(ls), cancels)

RECURSIVE FindAllCancel(_)
FindAllCancel(ls) ==
    IF ls = <<>> THEN <<>> ELSE CANCEL_PATTERN(Head(ls).toks, 1) \o FindAllCancel(Tail(ls))

RECURSIVE FindAllPripCancel(_)
FindAllPripCancel(ls) ==
    IF ls = <<>> THEN <<>>
    ELSE PRIP_CANCEL_PATTERN(Head(ls).toks, 1) \o FindAllPripCancel(Tail(ls))

(* re.search(r"HYDROARC (\d+/\d+)", body): positions of HYDROARC identifiers *)
HydroarcPositions(flat) == {i \in 1..Len(flat) : flat[i].k = "id" /\ flat[i].w = "HYDROARC"}

(* the list built by the pattern and by the per-line loop, before the *)
(* own-suffix filter                                                   *)
Extracted(b) == LineLoop("CANCEL", b, FindAllCancel(b))

parse_cancellations(b) ==
    LET cancels == Extracted(b)
        flat == Flatten(b)
        ps == HydroarcPositions(flat)
    IN  IF ps # {}
        THEN LET t == flat[CHOOSE i \in ps : \A j \in ps : i <= j]
                 own_suffix == Target("", t.d, t.m, 0)
             IN  SelectSeq(cancels, LAMBDA c : c # own_suffix)
        ELSE cancels

prip_parse_cancellations(b) == LineLoop("RU_OTM", b, FindAllPripCancel(b))

(* ---------------------------- record model ----------------------------- *)
NoDtg == [year |-> 0, mon |-> 0, t |-> 0]
(* the year datetime.now() gives when the model starts *)
ThisYear == 2026
NoId == [scheme |-> "", n |-> 0, yy |-> 0, sub |-> 0]
(* year: absent, an integer, or a string of digits *)
NoYear == [kind |-> "none", v |-> 0]
IntYear(v) == [kind |-> "int", v |-> v]
StrYear(v) == [kind |-> "str", v |-> v]

(* parse_dtg: the manual parse of `DDHHMMZ MON YY'; digits that form no   *)
(* calendar date raise ValueError and fall through to dateutil, which     *)
(* rejects them as well.  A string that is no DTG goes to dateutil too:   *)
(* a day and a month without a year (`10 AUG') parse, and dateutil takes  *)
(* the missing year from datetime.now(), which is the variable clock      *)
parse_dtg(dtg_str) ==
    IF Len(dtg_str) = 1 /\ dtg_str[1].k = "dtg" /\ dtg_str[1].d > 0
    THEN [year |-> 2000 + dtg_str[1].x, mon |-> dtg_str[1].m, t |-> dtg_str[1].d]
    ELSE IF Len(dtg_str) = 1 /\ dtg_str[1].k = "date"
    THEN [year |-> clock, mon |-> dtg_str[1].m, t |-> dtg_str[1].d]
    ELSE NoDtg

(* parse_msg_id: MSG_ID_PATTERN.search(body), the leftmost identifier *)
IdPositions(flat) == {i \in 1..Len(flat) : flat[i].k = "id"}

parse_msg_id(b) ==
    LET flat == Flatten(b)
        ps == IdPositions(flat)
    IN  IF ps = {} THEN NoId
        ELSE LET t == flat[CHOOSE i \in ps : \A j \in ps : i <= j]
             IN  [scheme |-> t.w, n |-> t.d, yy |-> t.m,
                  sub |-> IF t.w = "HYDROARC" THEN t.x ELSE 0]

(* extract_year(msg_id, dtg) *)
extract_year(msg_id, dtg) ==
    IF msg_id # NoId /\ msg_id.yy \in 0..99
    THEN IF msg_id.yy <= 79 THEN IntYear(2000 + msg_id.yy) ELSE IntYear(1900 + msg_id.yy)
    ELSE IF dtg # NoDtg THEN IntYear(dtg.year)
    ELSE NoYear

(* NavwarnMessage.from_text(dtg_str, body) *)
from_text(dtg_str, b) ==
    LET coords == parse_coordinates(b)
        g == analyze_geometry(b, coords)
        id == parse_msg_id(b)
        dtg == parse_dtg(dtg_str)
    IN  [dtg |-> dtg,
         raw_dtg |-> dtg_str,
         msg_id |-> id,
         coordinates |-> coords,
         cancellations |-> parse_cancellations(b),
         hazard_type |-> classify_hazard(b),
         geometry |-> g.geometry,
         radius |-> g.radius,
         groups |-> parse_coordinate_groups(b),
         body |-> b,
         year |-> extract_year(id, dtg)]

(* ------------------------------- PRIP ---------------------------------- *)
NoneText == -1           \* a header field that is None, printed as `None'

(* PRIP_HEADER.match(headertext), case-insensitive:                        *)
(*   PRIP <region> n/yy\s(KARTY|KARTA)?\s([ \d]+)?\s(.+)?                  *)
(* three separators have to follow the two-digit year, so between words    *)
(* that stand one space apart the chart word, a chart number and one more  *)
(* word are all needed                                                     *)
PRIP_HEADER(h) ==
    /\ Len(h) >= 6
    /\ h[1].k = "w" /\ Upper(h[1].w) = "RU_PRIP"
    /\ h[2].k = "w" /\ Upper(h[2].w) \in {"RU_MURMANSK", "RU_ARKHANGELSK", "RU_ZAPAD"}
    /\ h[3].k = "ref" /\ h[3].m \in 0..99
    /\ h[4].k = "w" /\ Upper(h[4].w) \in {"RU_KARTY", "RU_KARTA"}
    /\ h[5].k = "num"

parse_prip_header(headertext) ==
    IF PRIP_HEADER(headertext)
    THEN [area |-> headertext[2].w, msg_id |-> headertext[3].d, year |-> headertext[3].m]
    ELSE [area |-> "None", msg_id |-> NoneText, year |-> NoneText]

(* f"PRIP {area_map.get(area)}": the scheme part of the identifier *)
area_map(area) ==
    CASE area = "RU_MURMANSK" -> "PRIP MURMANSK"
      [] area = "RU_ARKHANGELSK" -> "PRIP ARKHANGELSK"
      [] area = "RU_ZAPAD" -> "PRIP WEST"
      [] OTHER -> "PRIP None"

(* body_strip: empty lines and the end mark NNNN go, then str.strip() *)
body_strip(b) ==
    LET kept == SelectSeq(b, LAMBDA l : ~IsBlank(l))
        unmarked == [i \in 1..Len(kept) |->
                        [kept[i] EXCEPT !.toks = SelectSeq(@, LAMBDA t : t # W("RU_NNNN"))]]
    IN  Strip(unmarked)

(* NavwarnMessage.prip_from_text(prip_header, prip_str) *)
prip_from_text(prip_header, prip_str) ==
    LET hd == parse_prip_header(prip_header)
        coords == parse_coordinates(prip_str)
        g == analyze_geometry(prip_str, coords)
    IN  [dtg |-> NoDtg,
         raw_dtg |-> prip_header,
         msg_id |-> [scheme |-> area_map(hd.area), n |-> hd.msg_id, yy |-> hd.year, sub |-> 0],
         coordinates |-> coords,
         cancellations |-> prip_parse_cancellations(prip_str),
         hazard_type |-> classify_hazard(prip_str),
         geometry |-> g.geometry,
         radius |-> g.radius,
         groups |-> parse_coordinate_groups(prip_str),
         body |-> body_strip(prip_str),
         year |-> IF hd.year # NoneText THEN StrYear(2000 + hd.year) ELSE NoYear]

(* ------------------------ parse_broadcast_warn_xml ---------------------- *)
(* one child element of <broadcast-warn>: entity = its tag ends in Entity, *)
(* msgYear / cancelMsgYear = four-digit years, NoneText for a field that   *)
(* is missing or empty; issueDate = a date-time group written with a       *)
(* four-digit year (fmt = "Y4"), some other text, or nothing               *)
raw_dtg_of(issue_date) ==
    IF Len(issue_date) = 1 /\ issue_date[1].k = "dtg"
    THEN <<[issue_date[1] EXCEPT !.fmt = ""]>>
    ELSE issue_date

EntityMessage(ent) ==
    LET year2 == IF ent.msgYear = NoneText THEN NoneText ELSE ent.msgYear % 100
        msg_id == IF ent.msgNumber # NoneText /\ year2 # NoneText
                  THEN [scheme |-> "HYDROARC", n |-> ent.msgNumber, yy |-> year2,
                        sub |-> IF ent.subregion \notin {"", "GEN"} THEN 1 ELSE 0]
                  ELSE NoId
        parsed == parse_cancellations(ent.text)
        structured_cancel == Target("HYDROARC", ent.cancelMsgNumber, ent.cancelMsgYear % 100, 0)
        cancels == IF /\ ent.cancelMsgNumber # NoneText /\ ent.cancelMsgYear # NoneText
                      /\ \A k \in 1..Len(parsed) : parsed[k] # structured_cancel
                   THEN Append(parsed, structured_cancel)
                   ELSE parsed
        raw_dtg == raw_dtg_of(ent.issueDate)
    IN  [dtg |-> IF raw_dtg # <<>> THEN parse_dtg(raw_dtg) ELSE NoDtg,
         raw_dtg |-> raw_dtg,
         msg_id |-> msg_id,
         coordinates |-> parse_coordinates(ent.text),
         cancellations |-> cancels,
         hazard_type |-> classify_hazard(ent.text),
         geometry |-> "None",
         radius |-> NoRadius,
         groups |-> <<>>,
         body |-> ent.text,
         year |-> NoYear]

parse_broadcast_warn_xml(root) ==
    LET ents == SelectSeq(root, LAMBDA ent : ent.entity)
    IN  [i \in 1..Len(ents) |-> EntityMessage(ents[i])]

(* --------------------------- parse_navwarns ---------------------------- *)
NoLine == <<>>           \* current_dtg is None

(* flush(): append the message under construction, if there is one *)
flush(st) ==
    IF st.current_dtg # NoLine
    THEN Append(st.messages, from_text(st.current_dtg, Strip(st.current_body_lines)))
    ELSE st.messages

(* variant: a new DTG line discards the message under construction *)
SegStep_NoFlush(st, raw_line) ==
    LET line == RStrip(raw_line)
    IN  IF DTG_LINE_PATTERN(line)
        THEN [current_dtg |-> line.toks,
              current_body_lines |-> IF st.current_dtg # NoLine THEN <<>>
                                     ELSE st.current_body_lines,
              messages |-> st.messages]
        ELSE [st EXCEPT !.current_body_lines = Append(@, line)]

(* one iteration of `for raw_line in lines' *)
SegStep(st, raw_line) ==
    LET line == RStrip(raw_line)
    IN  IF DTG_LINE_PATTERN(line)
        THEN [current_dtg |-> line.toks,
              current_body_lines |-> IF st.current_dtg # NoLine THEN <<>>
                                     ELSE st.current_body_lines,
              messages |-> flush(st)]
        ELSE [st EXCEPT !.current_body_lines = Append(@, line)]

RECURSIVE SegLoop(_, _)
SegLoop(ls, st) == IF ls = <<>> THEN st ELSE SegLoop(Tail(ls), SegStep(st, Head(ls)))

(* re.sub(r"\([^)]*\)$", "", m.msg_id) *)
StripSuffix(m) == IF m.msg_id # NoId THEN [m EXCEPT !.msg_id.sub = 0] ELSE m

parse_navwarns(t) ==
    LET lines == Strip(t)
        st == SegLoop(lines, [current_dtg |-> NoLine, current_body_lines |-> <<>>,
                              messages |-> <<>>])
        flushed == flush(st)
        found == IF flushed = <<>> /\ lines # <<>>
                 THEN <<from_text(lines[1].toks, Strip(lines))>>
                 ELSE flushed
    IN  IF Len(found) > 1 THEN [i \in 1..Len(found) |-> StripSuffix(found[i])] ELSE found

(* parse_prips(raw_prips): one record per (header, text) pair *)
parse_prips(raw_prips) ==
    [i \in 1..Len(raw_prips) |-> prip_from_text(raw_prips[i].header, raw_prips[i].text)]

(* --------------------------- GeoJSON helpers --------------------------- *)
(* A geometry is [type, coordinates]; coordinates is always a sequence of *)
(* positions <<lon, lat>>: one position for a Point, the positions of the *)
(* single ring for a Polygon.  NullGeom is Python's None.                 *)
NullGeom == [type |-> "null", coordinates |-> <<>>]

(* sin and cos of an angle in whole degrees, times 1000 (Bhaskara) *)
SinHalf(x) == (4000 * x * (180 - x)) \div (40500 - x * (180 - x))
Sin1000(a) == LET x == a % 360 IN IF x <= 180 THEN SinHalf(x) ELSE 0 - SinHalf(x - 180)
Cos1000(a) == Sin1000(a + 90)

MinSegments == 8
DefaultSegments == 72

Swap(coords) == [i \in 1..Len(coords) |-> <<coords[i][2], coords[i][1]>>]

(* variant: the first position is appended whether or not the ring is closed *)
CloseRing_Always(ring) == Append(ring, ring[1])

(* if ring[0] != ring[-1]: ring.append(ring[0]) *)
CloseRing(ring) == IF ring[1] # ring[Len(ring)] THEN Append(ring, ring[1]) ELSE ring

(* variant: the tessellated ring is left open *)
CircleRing_Open(center, radius, circle_segments) ==
    LET segments == Max(MinSegments, circle_segments)
    IN  [n \in 1..segments |->
            <<center[2] + (Cos1000((360 * (n - 1)) \div segments) * radius * 300) \div 1000,
              center[1] + (Sin1000((360 * (n - 1)) \div segments) * radius * 300) \div 1000>>]

(* the circle branch: `segments' points around coords[0], then ring[0] again *)
CircleRing(center, radius, circle_segments) ==
    LET lat_c == center[1]
        lon_c == center[2]
        segments == Max(MinSegments, circle_segments)
        deg_lat == radius * 300
        c == Cos1000(lat_c \div Unit)
        cos_lat == IF c = 0 THEN 1 ELSE c
        deg_lon == (deg_lat * 1000) \div cos_lat
        ring == [n \in 1..segments |->
                    LET theta == (360 * (n - 1)) \div segments
                        dy == (Sin1000(theta) * deg_lat) \div 1000
                        dx == (Cos1000(theta) * deg_lon) \div 1000
                    IN  <<lon_c + dx, lat_c + dy>>]
    IN  Append(ring, ring[1])

(* variant: no coordinates give a Point with an empty coordinates array *)
geojson_geometry_EmptyPoint(m, circle_segments) ==
    IF m.coordinates = <<>> THEN [type |-> "Point", coordinates |-> <<>>]
    ELSE [type |-> "Point", coordinates |-> <<<<m.coordinates[1][2], m.coordinates[1][1]>>>>]

geojson_geometry(m, circle_segments) ==
    LET coords == m.coordinates
    IN  IF coords = <<>> THEN NullGeom
        ELSE IF m.geometry = "circle" /\ m.radius # NoRadius /\ m.radius # 0
        THEN [type |-> "Polygon", coordinates |-> CircleRing(coords[1], m.radius, circle_segments)]
        ELSE IF m.geometry = "linestring" /\ Len(coords) >= 2
        THEN [type |-> "LineString", coordinates |-> Swap(coords)]
        ELSE IF m.geometry = "multipoint" /\ Len(coords) >= 2
        THEN [type |-> "MultiPoint", coordinates |-> Swap(coords)]
        ELSE IF m.geometry = "polygon" /\ Len(coords) >= 3
        THEN [type |-> "Polygon", coordinates |-> CloseRing(Swap(coords))]
        ELSE [type |-> "Point", coordinates |-> <<<<coords[1][2], coords[1][1]>>>>]

(* a feature id: the identifier (NoId: None) and the `#grp<n>' suffix, *)
(* grp = 0 when there is none                                          *)
MSG == [scheme |-> "MSG", n |-> 0, yy |-> 0, sub |-> 0]
FeatId(base, grp) == [base |-> base, grp |-> grp]

to_geojson_feature(m) ==
    [id |-> FeatId(m.msg_id, 0),
     geometry |-> geojson_geometry(m, DefaultSegments),
     properties |-> [dtg |-> m.dtg, raw_dtg |-> m.raw_dtg, msg_id |-> m.msg_id,
                     year |-> m.year, cancellations |-> m.cancellations,
                     hazard_type |-> m.hazard_type,
                     geometry_kind |-> m.geometry, radius_nm |-> m.radius,
                     body |-> m.body]]

area_hint(m) == \E k \in {"AREA", "BOUNDED", "WITHIN", "RADIUS"} : InText(k, m.body)

(* variant: the linestring rule is tried before the area-hint rule *)
GroupGeometry_LineFirst(m, grp) ==
    IF Len(grp) = 1
    THEN [type |-> "Point", coordinates |-> Swap(grp)]
    ELSE IF Len(grp) >= 2 /\ m.geometry = "linestring"
    THEN [type |-> "LineString", coordinates |-> Swap(grp)]
    ELSE IF Len(grp) >= 3 /\ area_hint(m)
    THEN [type |-> "Polygon", coordinates |-> CloseRing(Swap(grp))]
    ELSE IF Len(grp) > 1
    THEN [type |-> "MultiPoint", coordinates |-> Swap(grp)]
    ELSE [type |-> "Point", coordinates |-> Swap(grp)]

(* the geometry chosen for one group inside the loop of to_geojson_features *)
GroupGeometry(m, grp) ==
    IF Len(grp) = 1
    THEN [type |-> "Point", coordinates |-> Swap(grp)]
    ELSE IF Len(grp) >= 3 /\ area_hint(m)
    THEN [type |-> "Polygon", coordinates |-> CloseRing(Swap(grp))]
    ELSE IF Len(grp) >= 2 /\ m.geometry = "linestring"
    THEN [type |-> "LineString", coordinates |-> Swap(grp)]
    ELSE IF Len(grp) > 1
    THEN [type |-> "MultiPoint", coordinates |-> Swap(grp)]
    ELSE [type |-> "Point", coordinates |-> Swap(grp)]

(* variant: group_index counts from zero *)
GroupFeature_ZeroBased(m, idx) ==
    [id |-> FeatId(IF m.msg_id # NoId THEN m.msg_id ELSE MSG, idx),
     geometry |-> GroupGeometry(m, m.groups[idx]),
     properties |-> [parent_id |-> m.msg_id, group_index |-> idx - 1, dtg |-> m.dtg,
                     raw_dtg |-> m.raw_dtg, year |-> m.year,
                     hazard_type |-> m.hazard_type, body |-> m.body]]

GroupFeature(m, idx) ==
    [id |-> FeatId(IF m.msg_id # NoId THEN m.msg_id ELSE MSG, idx),
     geometry |-> GroupGeometry(m, m.groups[idx]),
     properties |-> [parent_id |-> m.msg_id, group_index |-> idx, dtg |-> m.dtg,
                     raw_dtg |-> m.raw_dtg, year |-> m.year,
                     hazard_type |-> m.hazard_type, body |-> m.body]]

RECURSIVE GroupFeatures(_, _)
GroupFeatures(m, idx) ==
    IF idx > Len(m.groups) THEN <<>>
    ELSE (IF m.groups[idx] = <<>> THEN <<>> ELSE <<GroupFeature(m, idx)>>)
         \o GroupFeatures(m, idx + 1)

(* variant: circles are split like any other message *)
to_geojson_features_SplitCircle(m) ==
    IF m.groups = <<>> \/ Len(m.groups) <= 1
    THEN <<to_geojson_feature(m)>>
    ELSE GroupFeatures(m, 1)

to_geojson_features(m) ==
    IF m.groups = <<>> \/ Len(m.groups) <= 1 \/ m.geometry = "circle"
    THEN <<to_geojson_feature(m)>>
    ELSE LET fs == GroupFeatures(m, 1)
         IN  IF fs # <<>> THEN fs ELSE <<to_geojson_feature(m)>>

(* NavwarnMessage, the class of every object the parsers return: its     *)
(* attributes are the record's fields, its methods the three below       *)
Methods == {"geojson_geometry", "to_geojson_feature", "to_geojson_features"}

hasattr(m, name) == name \in DOMAIN m \cup Methods

(* scraper.serialize_message: the feature of to_geojson_feature with a   *)
(* summary placeholder; an object without that method falls back to a    *)
(* Point at its first coordinate, with an empty array when it has none   *)
serialize_message(m) ==
    IF hasattr(m, "to_geojson_feature")
    THEN LET feat == to_geojson_feature(m)
         IN  [feat EXCEPT !.properties = @ @@ ("summary" :> "None")]
    ELSE LET coords == IF hasattr(m, "coordinates") THEN m.coordinates ELSE <<>>
             geometry == IF coords /= <<>>
                         THEN [type |-> "Point", coordinates |-> Swap(<<coords[1]>>)]
                         ELSE [type |-> "Point", coordinates |-> <<>>]
         IN  [id |-> IF hasattr(m, "msg_id") THEN m.msg_id ELSE NoId,
              geometry |-> geometry,
              properties |-> ("raw" :> "str")]

(* -------------------- archive_cancelled_messages ----------------------- *)
(* instants are integers: (year * 12 + month) * 1000 + the ordinal of the *)
(* day, hour and minute within the month                                  *)
NoTime == -1

(* parse_navwarn_dtg: a two-digit year up to 79 is 20YY, above it 19YY; *)
(* digits that form no calendar date give None                          *)
parse_navwarn_dtg(t) ==
    IF t.k = "dtg" /\ t.d > 0
    THEN ((IF t.x <= 79 THEN 2000 + t.x ELSE 1900 + t.x) * 12 + t.m) * 1000 + t.d
    ELSE NoTime

(* extract_dtgs_from_text over the tokens of a text: every date-time *)
(* group that parses, in text order                                   *)
RECURSIVE extract_dtgs_from_text(_)
extract_dtgs_from_text(toks) ==
    IF toks = <<>> THEN <<>>
    ELSE (IF parse_navwarn_dtg(Head(toks)) # NoTime
          THEN <<parse_navwarn_dtg(Head(toks))>> ELSE <<>>)
         \o extract_dtgs_from_text(Tail(toks))

(* the text of one entry of properties['cancellations'] as tokens: only *)
(* the THIS MSG / THIS MESSAGE forms hold a date-time group with a year *)
(* (the PRIP form ends after the month)                                 *)
ItemTokens(c) ==
    IF c.form = "THIS MSG" THEN <<W("THIS"), W("MSG"), DTG(c.d)>>
    ELSE IF c.form = "THIS MESSAGE" THEN <<W("THIS"), W("MESSAGE"), DTG(c.d)>>
    ELSE IF c.form = "THIS MSG UTC" THEN <<W("THIS"), W("MSG"), UTC(c.d)>>
    ELSE IF c.form = "THIS MESSAGE UTC" THEN <<W("THIS"), W("MESSAGE"), UTC(c.d)>>
    ELSE IF c.form = "RU_ETOT RU_NR" THEN <<W("RU_ETOT"), W("RU_NR")>>
    ELSE IF c.form = "HYDROARC" THEN <<Id("HYDROARC", c.n, c.yy, 0)>>
    ELSE <<Ref(c.n, c.yy)>>

RECURSIVE ItemsTokens(_)
ItemsTokens(cancels) ==
    IF cancels = <<>> THEN <<>> ELSE ItemTokens(Head(cancels)) \o ItemsTokens(Tail(cancels))

(* sorted(results) *)
RECURSIVE Insert(_, _)
Insert(x, seq) ==
    IF seq = <<>> THEN <<x>>
    ELSE IF x < Head(seq) THEN <<x>> \o seq
    ELSE <<Head(seq)>> \o Insert(x, Tail(seq))

RECURSIVE sorted(_)
sorted(seq) == IF seq = <<>> THEN <<>> ELSE Insert(Head(seq), sorted(Tail(seq)))

(* the `seen' loop: the first occurrence of every element is kept *)
RECURSIVE Dedupe(_, _)
Dedupe(seq, seen) ==
    IF seq = <<>> THEN <<>>
    ELSE IF Head(seq) \in seen THEN Dedupe(Tail(seq), seen)
    ELSE <<Head(seq)>> \o Dedupe(Tail(seq), seen \cup {Head(seq)})

(* props.get("cancellations") is a list only where the key is present *)
PropsTokens(props) ==
    (IF "cancellations" \in DOMAIN props THEN ItemsTokens(props.cancellations) ELSE <<>>)
        \o Flatten(props.body)

extract_cancellation_dtgs(props) == Dedupe(sorted(extract_dtgs_from_text(PropsTokens(props))), {})

(* extract_cancellation_references with normalize_ref_year: every n/yy of *)
(* the cancellations and of the body, first occurrences, four-digit years *)
RECURSIVE extract_cancellation_refs(_)
extract_cancellation_refs(toks) ==
    IF toks = <<>> THEN <<>>
    ELSE (IF Head(toks).k \in {"ref", "id"}
          THEN <<[n |-> Head(toks).d,
                  year |-> IF Head(toks).m > 99 THEN Head(toks).m
                           ELSE IF Head(toks).m <= 79 THEN 2000 + Head(toks).m
                           ELSE 1900 + Head(toks).m]>>
          ELSE <<>>)
         \o extract_cancellation_refs(Tail(toks))

(* parse_issue_dtg: the ISO dtg when there is one, else the raw token *)
parse_issue_dtg(props) ==
    IF props.dtg # NoDtg THEN (props.dtg.year * 12 + props.dtg.mon) * 1000 + props.dtg.t
    ELSE IF Len(props.raw_dtg) = 1 THEN parse_navwarn_dtg(props.raw_dtg[1])
    ELSE NoTime

(* variant: an instant equal to now does not count as passed *)
evaluate_navwarn_cancellation_Strict(feature, t) ==
    LET props == feature.properties
        cancellation_times_sorted == sorted(extract_cancellation_dtgs(props))
        future == SelectSeq(cancellation_times_sorted, LAMBDA dt : dt >= t)
    IN  [id |-> feature.id,
         issued_dtg |-> parse_issue_dtg(props),
         cancellation_times |-> cancellation_times_sorted,
         cancellation_refs |-> Dedupe(extract_cancellation_refs(PropsTokens(props)), {}),
         is_cancelled |-> \E k \in 1..Len(cancellation_times_sorted) :
                                cancellation_times_sorted[k] < t,
         next_cancellation |-> IF future # <<>> THEN future[1] ELSE NoTime]

evaluate_navwarn_cancellation(feature, t) ==
    LET props == feature.properties
        cancellation_times_sorted == sorted(extract_cancellation_dtgs(props))
        future == SelectSeq(cancellation_times_sorted, LAMBDA dt : dt > t)
    IN  [id |-> feature.id,
         issued_dtg |-> parse_issue_dtg(props),
         cancellation_times |-> cancellation_times_sorted,
         cancellation_refs |-> Dedupe(extract_cancellation_refs(PropsTokens(props)), {}),
         is_cancelled |-> \E k \in 1..Len(cancellation_times_sorted) :
                                cancellation_times_sorted[k] <= t,
         next_cancellation |-> IF future # <<>> THEN future[1] ELSE NoTime]

NoEvaluation ==
    [id |-> FeatId(NoId, 0), issued_dtg |-> NoTime, cancellation_times |-> <<>>,
     cancellation_refs |-> <<>>, is_cancelled |-> FALSE, next_cancellation |-> NoTime]

(* ----------------------------- storage --------------------------------- *)
(* a directory tree is a function from paths [dir, name] to file contents; *)
(* a file name is the sanitised identifier it was made from (every run of  *)
(* characters outside the safe set becomes one underscore), with the year  *)
(* the PRIP scraper appends                                                *)
NOID == [scheme |-> "NOID", n |-> 0, yy |-> 0, sub |-> 0]
Dir(root, year, sub) == [root |-> root, year |-> year, sub |-> sub]
OUTPUT_DIR == Dir("current", NoYear, "navwarns")
prips_location == Dir("current", NoYear, "prips")

Path(dir, name) == [dir |-> dir, name |-> name]

message_filename(m) == [id |-> IF m.msg_id # NoId THEN m.msg_id ELSE NOID, year |-> NoYear]

(* output_dir.glob(base + "_*.json"): the names that continue base with an *)
(* underscore, which is how a parenthesised subregion suffix is sanitised  *)
base_glob(fname, fs) ==
    {q \in DOMAIN fs :
        /\ q.dir = OUTPUT_DIR
        /\ q.name.id.scheme = fname.id.scheme /\ q.name.id.n = fname.id.n
        /\ q.name.id.yy = fname.id.yy
        /\ fname.id.sub = 0 /\ q.name.id.sub = 1}

Remove(fs, D) == [q \in DOMAIN fs \ D |-> fs[q]]

(* datetime.utcnow() at clock reading t, and its `%d%H%MZ %b %y' text *)
utcnow(t) == [year |-> 2026, mon |-> 11, t |-> t]
strftime(dtg) == <<Tok("dtg", "", dtg.t, dtg.mon, dtg.year - 2000, "")>>

(* m.raw_dtg.startswith(m.msg_id or ''): every text starts with '' *)
startswith(raw_dtg, msg_id) ==
    \/ msg_id = NoId
    \/ /\ raw_dtg # <<>> /\ raw_dtg[1].k = "id"
       /\ raw_dtg[1].w = msg_id.scheme /\ raw_dtg[1].d = msg_id.n /\ raw_dtg[1].m = msg_id.yy
       /\ (msg_id.sub = 1 => raw_dtg[1].x = 1)

(* the first-seen fallback shared by both write loops *)
FirstSeen(m, t) ==
    IF m.dtg = NoDtg
    THEN [m EXCEPT !.dtg = utcnow(t),
                   !.raw_dtg = IF m.raw_dtg = <<>> \/ startswith(m.raw_dtg, m.msg_id)
                               THEN strftime(utcnow(t)) ELSE @]
    ELSE m

(* one iteration of `for m in messages' of store_messages *)
StoreStep(st, i, force, t) ==
    LET m == st.messages[i]
        fname == message_filename(m)
        path == Path(OUTPUT_DIR, fname)
    IN  IF path \in DOMAIN st.files /\ ~force THEN st
        ELSE LET m2 == FirstSeen(m, t)
                 kept == Remove(st.files, base_glob(fname, st.files))
             IN  [messages |-> [st.messages EXCEPT ![i] = m2],
                  files |-> (path :> serialize_message(m2)) @@ kept,
                  written |-> st.written + 1]

RECURSIVE StoreLoop(_, _, _, _)
StoreLoop(st, i, force, t) ==
    IF i > Len(st.messages) THEN st
    ELSE StoreLoop(StoreStep(st, i, force, t), i + 1, force, t)

store_messages(ms, force, fs, t) ==
    StoreLoop([messages |-> ms, files |-> fs, written |-> 0], 1, force, t)

(* scraper_prips.main from parsed_prips on: the file name is made of the *)
(* identifier and the year; an existing file is never overwritten        *)
prip_filename(m) == [id |-> m.msg_id, year |-> m.year]

PripStep(st, i, t) ==
    LET m == st.messages[i]
        filepath == Path(prips_location, prip_filename(m))
    IN  IF filepath \in DOMAIN st.files THEN st
        ELSE LET m2 == FirstSeen(m, t)
             IN  [messages |-> [st.messages EXCEPT ![i] = m2],
                  files |-> (filepath :> serialize_message(m2)) @@ st.files,
                  written |-> st.written + 1]

RECURSIVE PripLoop(_, _, _)
PripLoop(st, i, t) ==
    IF i > Len(st.messages) THEN st ELSE PripLoop(PripStep(st, i, t), i + 1, t)

(* cleanup.identify_year: the four digits that end the file name, else *)
(* `unknown'                                                            *)
identify_year(name) == IF name.year.kind = "str" THEN name.year ELSE NoYear

(* filename.startswith("PRIP"), which is also what the pattern PRIP_*.json *)
(* of the PRIP scraper selects                                             *)
IsPripName(name) ==
    name.id.scheme \in {"PRIP MURMANSK", "PRIP ARKHANGELSK", "PRIP WEST", "PRIP None"}

(* cleanup.move_to_history: history/<year>/prips or history/<year>/navwarns *)
history_dir(name) ==
    Dir("history", identify_year(name), IF IsPripName(name) THEN "prips" ELSE "navwarns")

(* cleanup.cleanup(active_filenames, prips_location, "PRIP_*.json"): files *)
(* of the directory that the run did not list move to history             *)
cleanup(active_files, fs) ==
    LET obsolete == {q \in DOMAIN fs : /\ q.dir = prips_location /\ IsPripName(q.name)
                                       /\ q.name \notin active_files}
        moved == {Path(history_dir(o.name), o.name) : o \in obsolete}
    IN  [q \in (DOMAIN fs \ obsolete) \cup moved
            |-> IF q \in moved THEN fs[Path(prips_location, q.name)] ELSE fs[q]]

prips_main(parsed_prips, fs, t) ==
    LET st == PripLoop([messages |-> parsed_prips, files |-> fs, written |-> 0], 1, t)
        active_filenames == {prip_filename(parsed_prips[i]) : i \in 1..Len(parsed_prips)}
    IN  [st EXCEPT !.files = cleanup(active_filenames, st.files)]

(* scraper_prips.main: the pages of the three regions are fetched in the *)
(* order of page_urls; a page whose fetch fails after all retries is      *)
(* logged and contributes nothing; with at least one PRIP extracted the   *)
(* records are written and the directory is cleaned up                    *)
page_urls == <<"RU_MURMANSK", "RU_ARKHANGELSK", "RU_ZAPAD">>

Prip(header, prip_text) == [header |-> header, text |-> prip_text]

RECURSIVE Download(_, _, _)
Download(i, ok, pgs) ==
    IF i > Len(page_urls) THEN <<>>
    ELSE (IF page_urls[i] \in ok THEN pgs[page_urls[i]] ELSE <<>>) \o Download(i + 1, ok, pgs)

main(ok, pgs, ms, fs, t) ==
    LET raw_prips == Download(1, ok, pgs)
    IN  IF raw_prips # <<>>
        THEN prips_main(parse_prips(raw_prips), fs, t)
        ELSE [messages |-> ms, files |-> fs, written |-> 0]

(* ------------------------------ inputs --------------------------------- *)
(* Pair(i): the i-th position of a pool of distinct positions, written in *)
(* degree-minute notation; Near1 lies 5/1000 minute from Pair(1)          *)
Pair(i) == <<Lat(60 + i, 30, 0, "N"), Lon(10 + 2 * i, 15, 500, "E")>>
Near1 == <<Lat(61, 30, 5, "N"), Lon(12, 15, 500, "E")>>
Cyr1 == <<Lat(68, 30, 0, "cyrN"), Lon(41, 35, 0, "cyrE")>>
Dms1 == <<Tok("lat", "N", 51, 14, 23, "DMS"), Tok("lon", "E", 143, 58, 45, "DMS")>>

(* a run of n positions, one per line; the last one repeats the first    *)
(* ("closed"), lies next to it ("near") or is a new one ("open")         *)
CoordRun(n, v) ==
    [i \in 1..n |->
        Line(IF i = n /\ n >= 2 /\ v = "closed" THEN Pair(1)
             ELSE IF i = n /\ n >= 2 /\ v = "near" THEN Near1
             ELSE Pair(i))]

KwLine(name) ==
    CASE name = "radius" -> Line(<<W("WITHIN"), Num(50), W("NM"), W("RADIUS"), W("OF")>>)
      [] name = "radius0" -> Line(<<Num(0), W("MILE"), W("RADIUS")>>)
      [] name = "one" -> Line(<<Enum("1"), W("CABLE"), W("LAID")>>)
      [] name = "noun" -> Line(<<W("WELLHEAD"), W("ESTABLISHED")>>)
      [] name = "bounded" -> Line(<<W("IN"), W("AREA"), W("BOUNDED"), W("BY")>>)
      [] name = "areas" -> Line(<<W("IN"), W("AREAS"), W("BOUND"), W("BY")>>)
      [] name = "rayone" -> Line(<<W("RU_RAYONE"), W("RU_ZAPRETNOM")>>)
      [] name = "along" -> Line(<<W("ALONG"), W("LINE")>>)

KwOrder == <<"radius", "radius0", "one", "noun", "bounded", "areas", "rayone", "along">>

RECURSIVE KwLines(_, _)
KwLines(S, i) ==
    IF i > Len(KwOrder) THEN <<>>
    ELSE (IF KwOrder[i] \in S THEN <<KwLine(KwOrder[i])>> ELSE <<>>) \o KwLines(S, i + 1)

Range(f) == {f[i] : i \in DOMAIN f}

KwBodies ==
    {KwLines(S, 1) \o CoordRun(n, v) :
        S \in SUBSET Range(KwOrder), n \in 0..MaxCoords, v \in {"open", "closed", "near"}}

(* bodies with enumerated groups *)
Headers ==
    {<<>>,
     <<Line(<<Id("HYDROARC", 3, 26, 1)>>), Line(<<W("IN"), W("AREAS"), W("BOUND"), W("BY")>>)>>,
     <<Line(<<Id("NAVAREA XX", 156, 25, 0)>>), Line(<<Enum("1"), W("CABLE"), W("ALONG"), W("LINE")>>)>>,
     <<Line(<<W("WITHIN"), Num(20), W("MILES"), W("RADIUS"), W("OF")>>)>>}

GroupLines ==
    {Line(<<Enum("A")>> \o Pair(1)),
     Indented(<<Enum("B")>> \o Pair(2) \o Pair(3)),
     Line(<<Enum("C")>> \o Pair(1) \o Pair(2) \o Pair(1)),
     Indented(Pair(4)),
     Line(<<Enum("2"), W("CANCEL"), W("THIS"), W("MSG"), DTG(2)>>),
     Line(<<Enum("D")>> \o Cyr1),
     Line(<<W("VICINITY"), Pair(5)[1]>>),
     Line(<<Pair(5)[2], W("AND")>> \o Dms1)}

GroupBodies == {h \o ls : h \in Headers, ls \in SeqUpTo(GroupLines, MaxGroupLines)}

(* bulletins delivered without line breaks: the lettered areas follow *)
(* `AREA(S) BOUNDED BY:' on the one line of the body                  *)
SingleLineBodies ==
    {<<Line(<<Id("NAVAREA XX", 156, 25, 0), W("MISSILE"), W("FIRINGS"), W("IN"), W("AREAS"),
              W("BOUNDED"), W("BY"), Enum("A")>> \o Pair(1) \o Pair(2) \o Pair(3)
            \o <<Enum("B")>> \o Pair(4) \o Pair(5) \o Pair(6) \o Pair(4)
            \o <<Enum("2"), W("CANCEL"), W("THIS"), W("MSG")>>)>>,
     <<Line(<<Id("NAVAREA XX", 158, 25, 0), W("IN"), W("AREA"), W("BOUNDED"), W("BY"),
              Enum("A")>> \o Pair(1) \o Pair(2) \o Pair(3) \o Pair(4)
            \o <<Enum("B")>> \o Pair(5) \o Pair(6) \o Pair(7) \o Pair(8))>>}

GeomBodies == KwBodies \cup GroupBodies \cup SingleLineBodies

SegmentChoices == {0, 8, 9, 36}

(* lines of bulletins for the segmenter *)
SegLines ==
    {Line(<<DTG(1)>>),
     Trailing(<<DTG(2)>>),
     Indented(<<DTG(3)>>),
     Line(<<>>),
     Trailing(<<Id("HYDROARC", 136, 25, 1)>>),
     Line(<<Enum("3"), W("CANCEL"), W("THIS"), W("MSG"), DTG(2)>>),
     Indented(<<W("DERELICT"), W("VESSEL")>> \o Pair(1))}

HazWords == {"DERELICT", "VESSELS", "SHOAL", "LIGHT", "UNLIT", "ROCKET", "MOORING", "ENC",
             "CANCELLED", "ICEBERGS", "derelict"}

HazBodies ==
    {<<>>} \cup {<<Line([i \in 1..Len(ws) |-> W(ws[i])])>> : ws \in SeqUpTo(HazWords, MaxWords) \ {<<>>}}

(* bodies for the record factories: identifiers, cancellation statements *)
(* in the English and the Russian form, a position, the PRIP end mark     *)
RecLines ==
    {Line(<<Id("HYDROARC", 10, 25, 1), W("SHOAL")>>),
     Line(<<Id("NAVAREA XX", 10, 25, 0)>>),
     Line(<<Id("HYDROARC", 136, 2025, 0)>>),
     Line(<<W("CANCEL"), Ref(10, 25)>>),
     Line(<<W("CANCEL"), Ref(47, 18), W("AND"), Ref(7, 18)>>),
     Line(<<W("CANCEL"), Id("HYDROARC", 5, 25, 0)>>),
     Line(<<W("CANCEL"), Ref(5, 25)>>),
     Line(<<W("CANCELLED"), Id("NAVAREA XX", 9, 25, 0)>>),
     Line(<<Enum("2"), W("CANCEL"), W("THIS"), W("MSG"), DTG(2)>>),
     Line(<<W("RU_OTM"), Ref(291, 25)>>),
     Line(<<W("ru_otm"), Ref(5, 25)>>),
     Line(<<W("RU_OTM"), W("RU_ETOT"), W("RU_NR"), DTG(2)>>),
     Line(Cyr1 \o Pair(1)),
     Line(<<W("RU_NNNN")>>)}

RecBodies == SeqUpTo(RecLines, MaxRecLines)

(* issuance tokens handed to from_text: a date-time group, digits that *)
(* form no calendar date, nothing                                      *)
DtgStrings == {<<DTG(1)>>, <<DTG(0)>>, <<>>}

(* PRIP headers: two of the grammar, one in lower case, and two that the *)
(* grammar rejects (no chart word; identifier repeated before the chart) *)
PripHeaders ==
    {<<W("RU_PRIP"), W("RU_MURMANSK"), Ref(291, 25), W("RU_KARTA"), Num(130040), W("RU_GUBA")>>,
     <<W("RU_PRIP"), W("RU_ZAPAD"), Ref(5, 99), W("RU_KARTY"), Num(10), Num(20), W("RU_GUBA")>>,
     <<W("ru_prip"), W("ru_murmansk"), Ref(291, 25), W("ru_karta"), Num(130040), W("RU_GUBA")>>,
     <<W("RU_PRIP"), W("RU_MURMANSK"), Ref(999, 26)>>,
     <<W("RU_PRIP"), W("RU_ARKHANGELSK"), Ref(62, 25), W("RU_PRIP"), W("RU_ARKHANGELSK"),
       Num(620), W("RU_KARTA"), Num(190300)>>}

(* an element of the historical XML that is no message *)
NonEntity ==
    [entity |-> FALSE, msgYear |-> NoneText, msgNumber |-> NoneText, subregion |-> "",
     text |-> <<>>, issueDate |-> <<>>, cancelMsgYear |-> NoneText,
     cancelMsgNumber |-> NoneText]

Entities(b) ==
    {[entity |-> TRUE, msgYear |-> y, msgNumber |-> n, subregion |-> sr, text |-> b,
      issueDate |-> d, cancelMsgYear |-> c[1], cancelMsgNumber |-> c[2]] :
        y \in {NoneText, 2025, 1985}, n \in {NoneText, 10}, sr \in {"", "15"},
        d \in {<<>>, <<Tok("dtg", "", 1, 8, 25, "Y4")>>},
        c \in {<<NoneText, NoneText>>, <<2025, 5>>}}


(* single tokens handed to coord_to_decimal: every notation, Latin and *)
(* other hemisphere letters, and a word that is no coordinate at all   *)
CoordTokens ==
    {Tok(k, h, d, m, x, fmt) :
        k \in {"lat", "lon"}, h \in {"N", "S", "E", "W", "cyrN", "X"},
        d \in {5, 60, 143}, m \in {0, 30}, x \in {0, 23},
        fmt \in {"DM", "DM0", "DMS", "D1M"}}
    \cup {W("NORTH")}


(* bodies whose feature is evaluated: a bare cross-reference, the two  *)
(* self-cancellation forms, date-time groups outside any cancellation, *)
(* digits that form no date                                            *)
EvalLines ==
    {Line(<<Id("HYDROARC", 10, 25, 0)>>),
     Line(<<W("CANCEL"), Ref(47, 18)>>),
     Line(<<Enum("2"), W("CANCEL"), W("THIS"), W("MSG"), DTG(3)>>),
     Line(<<W("CANCEL"), W("THIS"), W("MESSAGE"), DTG(5)>>),
     Line(<<W("CANCEL"), W("THIS"), W("MSG"), UTC(1)>>),
     Line(<<W("FIRING"), DTG(4), W("TO"), DTG(2)>>),
     Line(<<W("ROCKET"), DTG(0)>>)}

EvalBodies == SeqUpTo(EvalLines, MaxEvalLines)

(* evaluation instants: the instants the bodies name, and one on each side *)
Instants == {parse_navwarn_dtg(DTG(i)) : i \in 1..6}


(* records handed to store_messages: with and without a subregion suffix, *)
(* without issuance time, without identifier, and from the fallback path  *)
(* where the first line is both issuance token and identifier             *)
StoreMsgs ==
    {from_text(<<DTG(1)>>, <<Line(<<Id("HYDROARC", 1, 25, 0)>>)>>),
     from_text(<<DTG(1)>>, <<Line(<<Id("HYDROARC", 1, 25, 1)>>)>>),
     from_text(<<>>, <<Line(<<Id("NAVAREA XX", 2, 25, 0)>>)>>),
     from_text(<<W("JUNK")>>, <<Line(<<W("SHOAL")>>)>>),
     from_text(<<Id("HYDROARC", 9, 25, 0)>>, <<Line(<<Id("HYDROARC", 9, 25, 0)>>)>>),
     from_text(<<W("JUNK")>>, <<Line(<<Id("HYDROARC", 8, 25, 0)>>)>>)}

(* records handed to the PRIP write loop *)
StorePrips == {prip_from_text(h, <<Line(Cyr1)>>) : h \in PripHeaders}


(* the PRIPs a region can list: two numbers per region *)
PagePrips(r) ==
    {Prip(<<W("RU_PRIP"), W(r), Ref(n, 25), W("RU_KARTA"), Num(130040), W("RU_GUBA")>>,
          <<Line(<<W("RU_ZNAK")>> \o Cyr1)>>) : n \in {62, 291}}

RegionSet == {page_urls[i] : i \in 1..Len(page_urls)}

Listings ==
    {f \in [RegionSet -> UNION {SeqUpTo(PagePrips(r), MaxPage) : r \in RegionSet}] :
        \A r \in RegionSet : f[r] \in SeqUpTo(PagePrips(r), MaxPage)}

(* every PRIP of every region, as an earlier run found them listed *)
RECURSIVE SetToSeq(_)
SetToSeq(S) == IF S = {} THEN <<>> ELSE LET x == CHOOSE x \in S : TRUE IN <<x>> \o SetToSeq(S \ {x})

EarlierListing == SetToSeq(UNION {PagePrips(r) : r \in RegionSet})

NoPages == <<>>          \* no page is modelled

(* --------------------------- state machines ---------------------------- *)
NoFiles == <<>>          \* the empty directory tree: no path is mapped

NoMsg == from_text(<<>>, <<>>)

(* the bulletin segmenter: a bulletin text is handed to parse_navwarns *)
InitSeg ==
    /\ text \in SeqUpTo(SegLines, MaxLines)
    /\ messages = <<>>
    /\ pc = "input"
    /\ body = <<>> /\ msg = NoMsg /\ feats = <<>> /\ geom = NullGeom /\ hazard = "" /\ segs = 0
    /\ decimal = NoValue /\ evaluation = NoEvaluation /\ now = 0
    /\ files = NoFiles /\ written = 0 /\ forced = FALSE
    /\ clock = ThisYear /\ pages = NoPages /\ fetched = {}

ParseNavwarns ==
    /\ pc = "input"
    /\ messages' = parse_navwarns(text)
    /\ pc' = "parsed"
    /\ UNCHANGED <<text, body, msg, feats, geom, hazard, segs>>
    /\ UNCHANGED <<decimal, evaluation, now, files, written, forced>>
    /\ UNCHANGED <<clock, pages, fetched>>

NextSeg == ParseNavwarns

SpecSeg == InitSeg /\ [][NextSeg]_vars

(* the record model and serialiser: a body becomes a message, the message *)
(* is projected to GeoJSON                                                *)
Init ==
    /\ body \in GeomBodies
    /\ msg = NoMsg /\ feats = <<>> /\ geom = NullGeom
    /\ pc = "input"
    /\ text = <<>> /\ messages = <<>> /\ hazard = "" /\ segs = 0
    /\ decimal = NoValue /\ evaluation = NoEvaluation /\ now = 0
    /\ files = NoFiles /\ written = 0 /\ forced = FALSE
    /\ clock = ThisYear /\ pages = NoPages /\ fetched = {}

FromText ==
    /\ pc = "input"
    /\ msg' = from_text(<<DTG(1)>>, body)
    /\ pc' = "built"
    /\ UNCHANGED <<text, messages, body, feats, geom, hazard, segs>>
    /\ UNCHANGED <<decimal, evaluation, now, files, written, forced>>
    /\ UNCHANGED <<clock, pages, fetched>>

GeojsonGeometry ==
    /\ pc = "built"
    /\ \E circle_segments \in SegmentChoices :
            /\ geom' = geojson_geometry(msg, circle_segments)
            /\ segs' = circle_segments
    /\ pc' = "geometry"
    /\ UNCHANGED <<text, messages, body, msg, feats, hazard>>
    /\ UNCHANGED <<decimal, evaluation, now, files, written, forced>>
    /\ UNCHANGED <<clock, pages, fetched>>

ToGeojsonFeature ==
    /\ pc = "built"
    /\ feats' = <<to_geojson_feature(msg)>>
    /\ pc' = "feature"
    /\ UNCHANGED <<text, messages, body, msg, geom, hazard, segs>>
    /\ UNCHANGED <<decimal, evaluation, now, files, written, forced>>
    /\ UNCHANGED <<clock, pages, fetched>>

ToGeojsonFeatures ==
    /\ pc = "built"
    /\ feats' = to_geojson_features(msg)
    /\ pc' = "features"
    /\ UNCHANGED <<text, messages, body, msg, geom, hazard, segs>>
    /\ UNCHANGED <<decimal, evaluation, now, files, written, forced>>
    /\ UNCHANGED <<clock, pages, fetched>>

SerializeMessage ==
    /\ pc = "built"
    /\ feats' = <<serialize_message(msg)>>
    /\ pc' = "serialized"
    /\ UNCHANGED <<text, messages, body, msg, geom, hazard, segs>>
    /\ UNCHANGED <<decimal, evaluation, now, files, written, forced>>
    /\ UNCHANGED <<clock, pages, fetched>>

Next == FromText \/ GeojsonGeometry \/ ToGeojsonFeature \/ ToGeojsonFeatures \/ SerializeMessage

Spec == Init /\ [][Next]_vars

(* the hazard classifier *)
InitHaz ==
    /\ body \in HazBodies
    /\ hazard = ""
    /\ pc = "input"
    /\ text = <<>> /\ messages = <<>> /\ msg = NoMsg /\ feats = <<>> /\ geom = NullGeom
    /\ segs = 0
    /\ decimal = NoValue /\ evaluation = NoEvaluation /\ now = 0
    /\ files = NoFiles /\ written = 0 /\ forced = FALSE
    /\ clock = ThisYear /\ pages = NoPages /\ fetched = {}

ClassifyHazard ==
    /\ pc = "input"
    /\ hazard' = classify_hazard(body)
    /\ pc' = "classified"
    /\ UNCHANGED <<text, messages, body, msg, feats, geom, segs>>
    /\ UNCHANGED <<decimal, evaluation, now, files, written, forced>>
    /\ UNCHANGED <<clock, pages, fetched>>

NextHaz == ClassifyHazard

SpecHaz == InitHaz /\ [][NextHaz]_vars

(* the record factories: a body becomes a record by from_text, by *)
(* prip_from_text under a header, or as the text of an XML entity *)
InitRec ==
    /\ body \in RecBodies
    /\ pc = "input"
    /\ text = <<>> /\ messages = <<>> /\ msg = NoMsg /\ feats = <<>> /\ geom = NullGeom
    /\ hazard = "" /\ segs = 0
    /\ decimal = NoValue /\ evaluation = NoEvaluation /\ now = 0
    /\ files = NoFiles /\ written = 0 /\ forced = FALSE
    /\ clock = ThisYear /\ pages = NoPages /\ fetched = {}

BuildFromText ==
    /\ pc = "input"
    /\ \E dtg_str \in DtgStrings : msg' = from_text(dtg_str, body)
    /\ pc' = "from_text"
    /\ UNCHANGED <<text, messages, body, feats, geom, hazard, segs>>
    /\ UNCHANGED <<decimal, evaluation, now, files, written, forced>>
    /\ UNCHANGED <<clock, pages, fetched>>

PripFromText ==
    /\ pc = "input"
    /\ \E prip_header \in PripHeaders :
            /\ text' = <<Line(prip_header)>>
            /\ msg' = prip_from_text(prip_header, body)
    /\ pc' = "prip"
    /\ UNCHANGED <<messages, body, feats, geom, hazard, segs>>
    /\ UNCHANGED <<decimal, evaluation, now, files, written, forced>>
    /\ UNCHANGED <<clock, pages, fetched>>

ParseBroadcastWarnXml ==
    /\ pc = "input"
    /\ \E ent \in Entities(body) : messages' = parse_broadcast_warn_xml(<<NonEntity, ent>>)
    /\ pc' = "xml"
    /\ UNCHANGED <<text, body, msg, feats, geom, hazard, segs>>
    /\ UNCHANGED <<decimal, evaluation, now, files, written, forced>>
    /\ UNCHANGED <<clock, pages, fetched>>

NextRec == BuildFromText \/ PripFromText \/ ParseBroadcastWarnXml

SpecRec == InitRec /\ [][NextRec]_vars

(* the coordinate lexer on one token *)
InitCoord ==
    /\ text \in {<<Line(<<t>>)>> : t \in CoordTokens}
    /\ pc = "input"
    /\ messages = <<>> /\ body = <<>> /\ msg = NoMsg /\ feats = <<>> /\ geom = NullGeom
    /\ hazard = "" /\ segs = 0
    /\ decimal = NoValue /\ evaluation = NoEvaluation /\ now = 0
    /\ files = NoFiles /\ written = 0 /\ forced = FALSE
    /\ clock = ThisYear /\ pages = NoPages /\ fetched = {}

CoordToDecimal ==
    /\ pc = "input"
    /\ decimal' = coord_to_decimal(text[1].toks[1])
    /\ pc' = "decoded"
    /\ UNCHANGED <<text, messages, body, msg, feats, geom, hazard, segs>>
    /\ UNCHANGED <<evaluation, now, files, written, forced>>
    /\ UNCHANGED <<clock, pages, fetched>>

NextCoord == CoordToDecimal

SpecCoord == InitCoord /\ [][NextCoord]_vars

(* the cancellation evaluator: a body becomes a record, the record a *)
(* feature, and the feature is evaluated at an instant                *)
InitEval ==
    /\ body \in EvalBodies
    /\ pc = "input"
    /\ text = <<>> /\ messages = <<>> /\ msg = NoMsg /\ feats = <<>> /\ geom = NullGeom
    /\ hazard = "" /\ segs = 0
    /\ decimal = NoValue /\ evaluation = NoEvaluation /\ now = 0
    /\ files = NoFiles /\ written = 0 /\ forced = FALSE
    /\ clock = ThisYear /\ pages = NoPages /\ fetched = {}

EvaluateNavwarnCancellation ==
    /\ pc = "feature"
    /\ \E t \in Instants :
            /\ evaluation' = evaluate_navwarn_cancellation(feats[1], t)
            /\ now' = t
    /\ pc' = "evaluated"
    /\ UNCHANGED <<text, messages, body, msg, feats, geom, hazard, segs>>
    /\ UNCHANGED <<decimal, files, written, forced>>
    /\ UNCHANGED <<clock, pages, fetched>>

NextEval == FromText \/ ToGeojsonFeature \/ EvaluateNavwarnCancellation

SpecEval == InitEval /\ [][NextEval]_vars

(* the storage layer: a scraper stores the same records run after run; *)
(* now is the clock, one tick per run                                   *)
InitStore ==
    /\ \/ pc = "navwarns" /\ messages \in SeqUpTo(StoreMsgs, MaxStore)
       \/ pc = "prips" /\ messages \in SeqUpTo(StorePrips, MaxStore)
    /\ text = <<>> /\ body = <<>> /\ msg = NoMsg /\ feats = <<>> /\ geom = NullGeom
    /\ hazard = "" /\ segs = 0
    /\ decimal = NoValue /\ evaluation = NoEvaluation /\ now = 0
    /\ files = NoFiles /\ written = 0 /\ forced = FALSE
    /\ clock = ThisYear /\ pages = NoPages /\ fetched = {}

StoreMessages ==
    /\ pc = "navwarns" /\ now < MaxRuns
    /\ \E force \in BOOLEAN :
            LET st == store_messages(messages, force, files, now + 1)
            IN  /\ messages' = st.messages
                /\ files' = st.files
                /\ written' = st.written
                /\ forced' = force
    /\ now' = now + 1
    /\ UNCHANGED <<text, pc, body, msg, feats, geom, hazard, segs, decimal, evaluation>>
    /\ UNCHANGED <<clock, pages, fetched>>

PripsMain ==
    /\ pc = "prips" /\ now < MaxRuns /\ messages # <<>>
    /\ LET st == prips_main(messages, files, now + 1)
       IN  /\ messages' = st.messages
           /\ files' = st.files
           /\ written' = st.written
    /\ now' = now + 1
    /\ UNCHANGED <<text, pc, body, msg, feats, geom, hazard, segs, decimal, evaluation, forced>>
    /\ UNCHANGED <<clock, pages, fetched>>

NextStore == StoreMessages \/ PripsMain

SpecStore == InitStore /\ [][NextStore]_vars

(* ------------- the same bulletin parsed at two points in time ----------- *)
ClockLines ==
    {Line(<<DTG(1)>>),
     Line(<<DayMonth(10, 8)>>),
     Line(<<W("SHOAL")>>),
     Trailing(<<Id("HYDROARC", 136, 25, 0)>>),
     Line(<<>>)}

InitClock ==
    /\ clock = ThisYear /\ pages = NoPages /\ fetched = {}
    /\ text \in SeqUpTo(ClockLines, MaxClockLines)
    /\ messages = <<>>
    /\ pc = "input"
    /\ body = <<>> /\ msg = NoMsg /\ feats = <<>> /\ geom = NullGeom /\ hazard = "" /\ segs = 0
    /\ decimal = NoValue /\ evaluation = NoEvaluation /\ now = 0
    /\ files = NoFiles /\ written = 0 /\ forced = FALSE

(* time passes between two parses; datetime.now() moves on *)
Tick ==
    /\ pc = "parsed" /\ clock < ThisYear + MaxTicks
    /\ clock' = clock + 1
    /\ pc' = "again"
    /\ UNCHANGED <<text, messages, body, msg, feats, geom, hazard, segs>>
    /\ UNCHANGED <<decimal, evaluation, now, files, written, forced>>
    /\ UNCHANGED <<pages, fetched>>

(* the second parse of the same text *)
ParseAgain ==
    /\ pc = "again"
    /\ messages' = parse_navwarns(text)
    /\ pc' = "parsed"
    /\ UNCHANGED <<text, body, msg, feats, geom, hazard, segs, clock>>
    /\ UNCHANGED <<decimal, evaluation, now, files, written, forced>>
    /\ UNCHANGED <<pages, fetched>>

NextClock == ParseNavwarns \/ Tick \/ ParseAgain

SpecClock == InitClock /\ [][NextClock]_vars

(* ------------- PRIP bodies that list navigation marks ------------------- *)
(* Mark(i): the i-th mark of a list: its name, its position in Cyrillic *)
(* notation, its number in the list of lights                           *)
Mark(i) ==
    Line(<<W("RU_ZNAK")>> \o <<Lat(68 + i, 30, 0, "cyrN"), Lon(30 + i, 35, 0, "cyrE")>>
         \o <<W("RU_NR"), Num(380 + i)>>)

NamedMarks == {Mark(i) : i \in 1..MaxMarks}

MarkLines ==
    NamedMarks
    \cup {Line(<<W("RU_ZNAKI"), W("RU_NEPRIGODNY")>>),
          Line(<<Enum("1"), W("LIGHT")>> \o Pair(1)),
          Line(<<W("RU_RAYONE")>>)}

InitMarks ==
    /\ clock = ThisYear /\ pages = NoPages /\ fetched = {}
    /\ body \in SeqUpTo(MarkLines, MaxMarks)
    /\ pc = "input"
    /\ text = <<>> /\ messages = <<>> /\ msg = NoMsg /\ feats = <<>> /\ geom = NullGeom
    /\ hazard = "" /\ segs = 0
    /\ decimal = NoValue /\ evaluation = NoEvaluation /\ now = 0
    /\ files = NoFiles /\ written = 0 /\ forced = FALSE

(* to_geojson_feature on a PRIP record *)
PripFeature ==
    /\ pc = "prip"
    /\ feats' = <<to_geojson_feature(msg)>>
    /\ pc' = "prip_feature"
    /\ UNCHANGED <<text, messages, body, msg, geom, hazard, segs, clock>>
    /\ UNCHANGED <<decimal, evaluation, now, files, written, forced>>
    /\ UNCHANGED <<pages, fetched>>

NextMarks == PripFromText \/ PripFeature

SpecMarks == InitMarks /\ [][NextMarks]_vars

(* ---------------- the PRIP scraper with fetches that fail --------------- *)
(* current/prips holds what an earlier run stored; the pages list some of *)
(* it now                                                                  *)
InitFetch ==
    /\ clock = ThisYear
    /\ pages \in Listings
    /\ fetched = {}
    /\ files = prips_main(parse_prips(EarlierListing), NoFiles, 0).files
    /\ pc = "scrape"
    /\ text = <<>> /\ messages = <<>> /\ body = <<>> /\ msg = NoMsg /\ feats = <<>>
    /\ geom = NullGeom /\ hazard = "" /\ segs = 0
    /\ decimal = NoValue /\ evaluation = NoEvaluation /\ now = 0
    /\ written = 0 /\ forced = FALSE

Main ==
    /\ pc = "scrape" /\ now < MaxRuns
    /\ \E ok \in SUBSET RegionSet :
            LET st == main(ok, pages, messages, files, now + 1)
            IN  /\ fetched' = ok
                /\ messages' = st.messages
                /\ files' = st.files
                /\ written' = st.written
    /\ now' = now + 1
    /\ UNCHANGED <<text, pc, body, msg, feats, geom, hazard, segs, decimal, evaluation>>
    /\ UNCHANGED <<forced, clock, pages>>

NextFetch == Main

SpecFetch == InitFetch /\ [][NextFetch]_vars

(* ======================= properties: segmenter ========================= *)
(* A DTG-only line: a line of the bulletin (surrounding whitespace of the *)
(* text trimmed) that holds one DTG token and nothing before it.          *)
IsDtgOnly(l) == l.toks # <<>> /\ l.toks[1].k = "dtg" /\ Len(l.toks) = 1 /\ ~l.lead

DtgOnlyLines(t) == SelectSeq(Strip(t), IsDtgOnly)

HasContent(t) == \E i \in 1..Len(t) : t[i].toks # <<>>

(* C1: parse_navwarns returns one record per DTG-only line, in source    *)
(* order, each with that line as raw_dtg; without such a line it returns *)
(* one record whose raw_dtg is the first line when the text has content, *)
(* and no record otherwise.                                              *)
C1_OneRecordPerDtgLine ==
    pc = "parsed" =>
        LET D == DtgOnlyLines(text)
        IN  IF D # <<>>
            THEN /\ Len(messages) = Len(D)
                 /\ \A i \in 1..Len(D) : messages[i].raw_dtg = D[i].toks
            ELSE IF HasContent(text)
            THEN /\ Len(messages) = 1
                 /\ messages[1].raw_dtg = Strip(text)[1].toks
            ELSE messages = <<>>

C1_Witness ==
    /\ pc = "parsed"
    /\ Len(messages) = 2
    /\ messages[1].raw_dtg = <<DTG(2)>>
    /\ messages[2].raw_dtg = <<DTG(1)>>

(* the words of the lines of a body, line by line, blank ends trimmed *)
Words(ls) == LET c == Strip(ls) IN [i \in 1..Len(c) |-> c[i].toks]

(* positions of the DTG-only lines in the trimmed text, ascending *)
DtgPositions(ls) == {i \in 1..Len(ls) : IsDtgOnly(ls[i])}

RECURSIVE NthPosition(_, _)
NthPosition(S, n) ==
    LET least == CHOOSE i \in S : \A j \in S : i <= j
    IN  IF n = 1 THEN least ELSE NthPosition(S \ {least}, n - 1)

(* the lines after the n-th DTG-only line, up to the next one or the end *)
LinesOfMessage(ls, n) ==
    LET P == DtgPositions(ls)
        from == NthPosition(P, n)
        upto == IF n < Cardinality(P) THEN NthPosition(P, n + 1) - 1 ELSE Len(ls)
    IN  SubSeq(ls, from + 1, upto)

(* C2: with at least one DTG-only line, the body of each record is made  *)
(* of exactly the lines between its own DTG line and the next DTG-only   *)
(* line (or the end); no line before the first DTG-only line and no line *)
(* of another message is in it.                                          *)
C2_BodyIsOwnLines ==
    (pc = "parsed" /\ DtgOnlyLines(text) # <<>>) =>
        \A n \in 1..Len(messages) :
            Words(messages[n].body) = Words(LinesOfMessage(Strip(text), n))

(* ======================== properties: geometry ========================= *)
(* the rules of the whole-message geometry decision, in priority order *)
RuleHolds(i, b, coords) ==
    CASE i = 1 -> circle_pattern(b) # 0 /\ Len(coords) >= 1
      [] i = 2 -> Len(coords) >= 2 /\ OneMarker(b) /\ (\E t \in feature_terms : InText(t, b))
      [] i = 3 -> Len(coords) >= 3 /\ PolygonKeyword(b)
      [] i = 4 -> Len(coords) >= 4 /\ FirstNearLast(coords)
      [] i = 5 -> PhraseInText("ALONG", "LINE", b) \/ Len(coords) >= 5
      [] i = 6 -> Len(coords) > 1
      [] i = 7 -> TRUE

RuleKind(i, b, coords) ==
    CASE i = 1 -> "circle"
      [] i = 2 -> "multipoint"
      [] i = 3 -> "polygon"
      [] i = 4 -> "polygon"
      [] i = 5 -> "linestring"
      [] i = 6 -> IF Len(coords) = 4 /\ InText("AREA", b) /\ InText("BOUND", b) THEN "polygon"
                  ELSE IF Len(coords) > 2 THEN "linestring" ELSE "point"
      [] i = 7 -> "point"

FirstRule(b, coords) ==
    CHOOSE i \in 1..7 : RuleHolds(i, b, coords) /\ \A j \in 1..(i - 1) : ~RuleHolds(j, b, coords)

Positions(seq) == {seq[i] : i \in 1..Len(seq)}

(* C4: a split message with N groups yields N features in source order  *)
(* with group_index 1..N, parent_id the identifier, id                   *)
(* `<identifier or MSG>#grp<group_index>', and a geometry made of the    *)
(* coordinates of the feature's own group only.                          *)
C4_SplitFeatures ==
    (pc = "features" /\ Len(msg.groups) > 1 /\ msg.geometry # "circle") =>
        /\ Len(feats) = Len(msg.groups)
        /\ \A i \in 1..Len(feats) :
            /\ feats[i].properties.group_index = i
            /\ feats[i].properties.parent_id = msg.msg_id
            /\ feats[i].id = [base |-> IF msg.msg_id = NoId THEN MSG ELSE msg.msg_id, grp |-> i]
            /\ Positions(feats[i].geometry.coordinates) = Positions(Swap(msg.groups[i]))

C4_Witness ==
    /\ pc = "features"
    /\ msg.geometry # "circle"
    /\ Len(msg.groups) = 3
    /\ Len(feats) = 3
    /\ msg.msg_id # NoId
    /\ feats[3].properties.group_index = 3

NonEmptyGroups(m) == Cardinality({i \in 1..Len(m.groups) : m.groups[i] # <<>>})

(* C5: to_geojson_features splits exactly when the message has more     *)
(* than one non-empty group and is no circle; otherwise it returns the   *)
(* one feature of to_geojson_feature().                                  *)
C5_SplitIff ==
    pc = "features" =>
        IF NonEmptyGroups(msg) > 1 /\ msg.geometry # "circle"
        THEN /\ Len(feats) = NonEmptyGroups(msg)
             /\ \A i \in 1..Len(feats) : feats[i].id.grp > 0
        ELSE feats = <<to_geojson_feature(msg)>>

C5_Witness ==
    /\ pc = "features"
    /\ msg.geometry = "circle"
    /\ Len(msg.groups) > 1
    /\ Len(feats) = 1
    /\ feats[1].id.grp = 0

(* the coordinate groups when every enumeration marker, wherever it *)
(* stands, starts a new group                                        *)
RECURSIVE SplitAtEnum(_, _)
SplitAtEnum(toks, cur) ==
    IF toks = <<>> THEN <<cur>>
    ELSE IF Head(toks).k = "enum" THEN <<cur>> \o SplitAtEnum(Tail(toks), <<>>)
    ELSE SplitAtEnum(Tail(toks), Append(cur, Head(toks)))

Areas(b) ==
    LET segsOf == SplitAtEnum(Flatten(b), <<>>)
        decoded == [i \in 1..Len(segsOf) |-> Decode(COORD_PATTERN(segsOf[i]))]
    IN  SelectSeq(decoded, LAMBDA g : g # <<>>)

(* C6: a bulletin on a single line that lists areas `A. ...', `B. ...'   *)
(* after `AREA(S) BOUNDED BY:' is split into one Polygon per lettered    *)
(* area, each ring holding that area's coordinates plus the closing      *)
(* point.                                                                *)
C6_SingleLineAreas ==
    (pc = "features" /\ Len(body) = 1 /\ PhraseInText("BOUNDED", "BY", body)
        /\ Len(Areas(body)) >= 2 /\ msg.geometry # "circle") =>
        /\ Len(feats) = Len(Areas(body))
        /\ \A i \in 1..Len(feats) :
            /\ feats[i].geometry.type = "Polygon"
            /\ feats[i].geometry.coordinates = CloseRing(Swap(Areas(body)[i]))

(* closure of a ring made from the coordinate sequence src *)
RingClosed(ring, src) ==
    /\ ring[1] = ring[Len(ring)]
    /\ (src[1] # src[Len(src)] => Len(ring) = Len(src) + 1)
    /\ (src[1] = src[Len(src)] => Len(ring) = Len(src))

(* the coordinate sequence a feature was made from *)
SourceOf(f) == IF f.id.grp > 0 THEN msg.groups[f.id.grp] ELSE msg.coordinates

(* C7: every Polygon emitted by geojson_geometry or to_geojson_features  *)
(* has a ring whose last position equals its first; N open coordinates   *)
(* give N+1 positions, an already closed sequence keeps its N positions. *)
C7_RingClosure ==
    /\ (pc = "geometry" /\ geom.type = "Polygon") =>
            IF msg.geometry = "circle"
            THEN geom.coordinates[1] = geom.coordinates[Len(geom.coordinates)]
            ELSE RingClosed(geom.coordinates, msg.coordinates)
    /\ pc \in {"feature", "features", "serialized"} =>
            \A i \in 1..Len(feats) :
                feats[i].geometry.type = "Polygon" =>
                    IF feats[i].id.grp = 0 /\ msg.geometry = "circle"
                    THEN feats[i].geometry.coordinates[1]
                            = feats[i].geometry.coordinates[Len(feats[i].geometry.coordinates)]
                    ELSE RingClosed(feats[i].geometry.coordinates, SourceOf(feats[i]))

C7_Witness ==
    /\ pc = "features"
    /\ Len(feats) = 2
    /\ feats[1].geometry.type = "Polygon"
    /\ feats[2].geometry.type = "Polygon"
    /\ Len(feats[1].geometry.coordinates) = Len(msg.groups[1])
    /\ Len(feats[2].geometry.coordinates) = Len(msg.groups[2]) + 1

(* the circle of a message: a radius phrase and at least one coordinate *)
HasCircle == circle_pattern(body) # 0 /\ msg.coordinates # <<>>

Center == <<msg.coordinates[1][2], msg.coordinates[1][1]>>

TessellatedRing ==
    /\ geom.type = "Polygon"
    /\ Len(geom.coordinates) = Max(8, segs) + 1
    /\ geom.coordinates[Len(geom.coordinates)] = geom.coordinates[1]
    /\ \A i \in 1..Len(geom.coordinates) : geom.coordinates[i] # Center

Categories == <<"derelict vessel", "shoals", "aid to navigation outage",
                "hazardous operations", "scientific mooring", "chart advisory",
                "ice and icebergs">>

(* the keyword rule of the i-th category on the uppercased body *)
HazardRule(i, b) ==
    CASE i = 1 -> AnyIn(DerelictA, b) /\ AnyIn(DerelictB, b)
      [] i = 2 -> AnyIn(ShoalKw, b)
      [] i = 3 -> AnyIn(AidA, b) /\ AnyIn(AidB, b)
      [] i = 4 -> AnyIn(HazOpsKw, b)
      [] i = 5 -> AnyIn(MooringKw, b)
      [] i = 6 -> AnyIn(ChartA, b) /\ AnyIn(ChartB, b)
      [] i = 7 -> AnyIn(IceKw, b)

Matching(b) == {i \in 1..7 : HazardRule(i, b)}

(* C10: classify_hazard returns the first category, in the order       *)
(* derelict vessel, shoals, aid-to-navigation outage, hazardous        *)
(* operations, scientific mooring, chart advisory, ice and icebergs,   *)
(* whose keyword rule the uppercased body satisfies, and `general'     *)
(* when none does or the body is empty.                                *)
C10_FirstCategory ==
    pc = "classified" =>
        IF body = <<>> \/ Matching(body) = {} THEN hazard = "general"
        ELSE \E i \in Matching(body) :
                /\ \A j \in Matching(body) : i <= j
                /\ hazard = Categories[i]

C10_Witness ==
    /\ pc = "classified"
    /\ hazard = "derelict vessel"
    /\ {2, 7} \subseteq Matching(body)

(* ===================== properties: cancellations ======================= *)
(* the records a factory has returned *)
Records ==
    CASE pc \in {"from_text", "prip"} -> <<msg>>
      [] pc = "xml" -> messages
      [] OTHER -> <<>>

(* the word that introduces a cancellation statement in the language of *)
(* the factory that ran                                                 *)
CancelWord == IF pc = "prip" THEN "RU_OTM" ELSE "CANCEL"

(* where the body states target c: <<line, token>> of a reference, an  *)
(* identifier or a date-time group that names it on a line holding the *)
(* cancellation word                                                    *)
Stated(b, c) ==
    {p \in UNION {{<<i, j>> : j \in 1..Len(b[i].toks)} : i \in 1..Len(b)} :
        LET t == b[p[1]].toks[p[2]]
        IN  /\ InText(CancelWord, <<b[p[1]]>>)
            /\ \/ c.form = "" /\ t.k \in {"ref", "id"} /\ t.d = c.n /\ t.m = c.yy
               \/ c.form = "HYDROARC" /\ t.k = "id" /\ t.w = "HYDROARC"
                    /\ t.d = c.n /\ t.m = c.yy
               \/ c.form \notin {"", "HYDROARC"} /\ t.k = "dtg" /\ t.d = c.d}

Before(p, q) == p[1] < q[1] \/ (p[1] = q[1] /\ p[2] < q[2])

FirstStated(b, c) == CHOOSE p \in Stated(b, c) : \A q \in Stated(b, c) : ~Before(q, p)

(* C11: the list returned by parse_cancellations / prip_parse_cancellations *)
(* holds each distinct target at most once, in the order in which the       *)
(* targets first occur in the body.                                          *)
C11_DistinctInOrder ==
    pc \in {"from_text", "prip"} =>
        LET c == msg.cancellations
        IN  \A i \in 1..Len(c) : \A j \in 1..Len(c) :
                i < j => /\ c[i] # c[j]
                         /\ ~Before(FirstStated(body, c[j]), FirstStated(body, c[i]))

(* the n/yy suffix of a record's identifier, as a bare reference *)
HasSuffix(r) == r.msg_id # NoId /\ r.msg_id.n # NoneText

OwnSuffix(r) == Target("", r.msg_id.n, r.msg_id.yy, 0)

InSeq(x, seq) == \E k \in 1..Len(seq) : seq[k] = x

(* C12: a record whose identifier ends in n/yy never lists its own n/yy  *)
(* among its cancellations, and every other reference extracted from the *)
(* body is still in the list after the self-reference guard.             *)
C12_SelfReferenceGuard ==
    \A k \in 1..Len(Records) :
        LET r == Records[k]
        IN  HasSuffix(r) =>
                /\ ~InSeq(OwnSuffix(r), r.cancellations)
                /\ pc # "prip" =>
                        \A e \in 1..Len(Extracted(body)) :
                            Extracted(body)[e] # OwnSuffix(r)
                                => InSeq(Extracted(body)[e], r.cancellations)

(* ======================= properties: year, PRIP ======================== *)
TwoDigitSuffix(r) == r.msg_id # NoId /\ r.msg_id.yy \in 0..99

(* C13: a record whose identifier ends in /YY has the integer year 2000+YY *)
(* (YY in 00..79) or 1900+YY (YY in 80..99); otherwise year is the year of *)
(* issued_at when that is present; year is absent only when neither source *)
(* is available.                                                           *)
C13_YearPopulated ==
    \A k \in 1..Len(Records) :
        LET r == Records[k]
        IN  /\ TwoDigitSuffix(r) =>
                    r.year = IntYear(IF r.msg_id.yy <= 79 THEN 2000 + r.msg_id.yy
                                     ELSE 1900 + r.msg_id.yy)
            /\ ~TwoDigitSuffix(r) /\ r.dtg # NoDtg => r.year = IntYear(r.dtg.year)
            /\ r.year = NoYear => ~TwoDigitSuffix(r) /\ r.dtg = NoDtg

(* a header of the grammar, for comparison *)
WellFormedHeader ==
    <<W("RU_PRIP"), W("RU_MURMANSK"), Ref(291, 25), W("RU_KARTA"), Num(130040), W("RU_GUBA")>>

(* C14: under a header that does not match the grammar prip_from_text      *)
(* returns a record with identifier and year absent, whose coordinates,    *)
(* hazard category, geometry kind and groups are those computed under a    *)
(* well-formed header.                                                     *)
C14_MalformedHeader ==
    pc = "prip" /\ ~PRIP_HEADER(text[1].toks) =>
        LET ref == prip_from_text(WellFormedHeader, body)
        IN  /\ msg.msg_id = NoId
            /\ msg.year = NoYear
            /\ msg.coordinates = ref.coordinates
            /\ msg.hazard_type = ref.hazard_type
            /\ msg.geometry = ref.geometry
            /\ msg.groups = ref.groups

(* ===================== properties: coordinate lexer ==================== *)
(* the grammar DD[D]-MM[.mmm][-SS[.ss]]H, H one of N, S, E, W *)
InGrammar(t) ==
    t.k \in {"lat", "lon"} /\ t.fmt \in {"DM", "DM0", "DMS"} /\ t.w \in {"N", "S", "E", "W"}

(* deg + min/60 (+ sec/3600), negated for S and W, in model units *)
SignedDegrees(t) ==
    (IF t.w \in {"S", "W"} THEN -1 ELSE 1)
        * (t.d * Unit + t.m * 3000 + (IF t.fmt = "DMS" THEN t.x * 50
                                      ELSE IF t.fmt = "DM" THEN t.x * 3 ELSE 0))

(* C15: coord_to_decimal returns deg + min/60 (+ sec/3600), negated for S *)
(* and W, for every token of the grammar, minutes without a decimal       *)
(* fraction included, and no value for every other token.                 *)
C15_LexerTotalOnGrammar ==
    pc = "decoded" =>
        LET t == text[1].toks[1]
        IN  IF InGrammar(t) THEN decimal = Value(SignedDegrees(t))
            ELSE decimal = NoValue

(* ================== properties: split feature properties =============== *)
(* the properties of the unsplit feature *)
UnsplitKeys ==
    {"dtg", "raw_dtg", "msg_id", "year", "cancellations", "hazard_type", "geometry_kind",
     "radius_nm", "body"}

(* C16: a split sub-feature carries every property of the unsplit feature, *)
(* with the same value, and group_index and parent_id as well.              *)
C16_SplitCarriesAll ==
    pc = "features" =>
        \A i \in 1..Len(feats) :
            feats[i].id.grp > 0 =>
                /\ UnsplitKeys \cup {"group_index", "parent_id"} \subseteq DOMAIN feats[i].properties
                /\ \A key \in UnsplitKeys \cap DOMAIN feats[i].properties :
                        feats[i].properties[key] = to_geojson_feature(msg).properties[key]

(* ==================== properties: cancellation status ================== *)
Later(times, t) == {times[k] : k \in {k \in 1..Len(times) : times[k] > t}}

(* C17: cancellation_times is strictly ascending; is_cancelled holds     *)
(* exactly when one of its instants is at or before now;                 *)
(* next_cancellation is the least instant after now, absent when there   *)
(* is none.                                                              *)
C17_EvaluationSummary ==
    pc = "evaluated" =>
        LET times == evaluation.cancellation_times
        IN  /\ \A i \in 1..Len(times) : \A j \in 1..Len(times) :
                    i < j => times[i] < times[j]
            /\ evaluation.is_cancelled <=> \E i \in 1..Len(times) : times[i] <= now
            /\ IF Later(times, now) = {} THEN evaluation.next_cancellation = NoTime
               ELSE /\ evaluation.next_cancellation \in Later(times, now)
                    /\ \A t \in Later(times, now) : evaluation.next_cancellation <= t

(* an instant of the list equals now, one lies after it, and the body *)
(* named one instant twice                                            *)
C17_Witness ==
    /\ pc = "evaluated"
    /\ \E i \in 1..Len(evaluation.cancellation_times) : evaluation.cancellation_times[i] = now
    /\ \A i \in 1..Len(evaluation.cancellation_times) : evaluation.cancellation_times[i] >= now
    /\ evaluation.is_cancelled
    /\ evaluation.next_cancellation # NoTime
    /\ Len(extract_dtgs_from_text(PropsTokens(feats[1].properties)))
            > Len(evaluation.cancellation_times)

(* the record's cancellation statements are all bare cross-references *)
OnlyBareReferences(m) ==
    /\ m.cancellations # <<>>
    /\ \A k \in 1..Len(m.cancellations) : m.cancellations[k].form \in {"", "HYDROARC"}

(* C18: a record whose only cancellation statements are bare cross-      *)
(* references is never reported cancelled, at any instant and whatever   *)
(* other date-time groups its body holds.                                *)
C18_BareReferenceNotCancelled ==
    pc = "evaluated" /\ OnlyBareReferences(msg) => ~evaluation.is_cancelled

(* ========================= properties: storage ========================= *)
(* a run of store_messages has just happened *)
Stored == pc = "navwarns" /\ now' = now + 1

(* C19: without force a run that follows a run over the same messages *)
(* writes nothing, returns 0 and leaves every file as it was; with    *)
(* force every message is written and counted.                        *)
C19_SecondRunWritesNothing ==
    [][Stored =>
            (/\ forced' => written' = Len(messages)
             /\ ~forced' /\ now >= 1 => written' = 0 /\ files' = files)]_vars

SameButDtg(m, m2) == [m2 EXCEPT !.dtg = m.dtg] = m

(* C20: a run of the storage layer changes no field of a message other  *)
(* than dtg, sets dtg only where it was absent, and leaves a message    *)
(* whose dtg is set unchanged in every field.                           *)
C20_OnlyDtgAssigned ==
    [][(pc \in {"navwarns", "prips"}) =>
            (\A i \in 1..Len(messages) :
                /\ SameButDtg(messages[i], messages'[i])
                /\ messages[i].dtg # NoDtg => messages'[i] = messages[i])]_vars

(* ==================== properties: segmenter round trip ================= *)
(* the text formed by a record's raw_dtg on its own line, then its body *)
Reassembled(r) == <<Line(r.raw_dtg)>> \o r.body

(* C21: a bulletin that parse_navwarns turns into a single record r      *)
(* (through a DTG-only line or through the fallback) is reproduced: the  *)
(* text of r.raw_dtg on its own line followed by r.body parses to        *)
(* exactly one record, equal to r in every field.                        *)
C21_SegmenterRoundTrip ==
    (pc = "parsed" /\ Len(messages) = 1) =>
        parse_navwarns(Reassembled(messages[1])) = <<messages[1]>>

(* ========================= properties: purity ========================== *)
(* C22: parsing is a pure function of the text: a second parse of the   *)
(* same text, made at a later time, returns records equal field by      *)
(* field and in the same order to those of the first parse.             *)
C22_ParseIsPure ==
    [][(pc = "again" /\ pc' = "parsed") => messages' = messages]_vars

(* ===================== properties: navigation marks ==================== *)
(* a body that is nothing but a list of two or more named marks, one per *)
(* line: no enumeration marker, radius phrase, area keyword, ALONG LINE  *)
ListOfMarks(b) == Len(b) >= 2 /\ \A i \in 1..Len(b) : b[i] \in NamedMarks

(* C23: a PRIP body that lists two or more named marks, one per line,   *)
(* has geometry kind multipoint, and its feature geometry is a          *)
(* MultiPoint that holds every position.                                *)
C23_MarksAreMultipoint ==
    (pc = "prip_feature" /\ ListOfMarks(body)) =>
        /\ msg.geometry = "multipoint"
        /\ feats[1].geometry.type = "MultiPoint"
        /\ Len(feats[1].geometry.coordinates) = Len(body)

(* ================= properties: groups and coordinates ================== *)
(* C24: the groups of a message, concatenated in order, are exactly its *)
(* coordinates: every coordinate that parse_coordinates finds belongs   *)
(* to exactly one group.                                                *)
C24_GroupsPartitionCoordinates ==
    (pc = "built") => ConcatAll(msg.groups) = msg.coordinates

(* ==================== properties: geometry of a group ================== *)
(* the feature list comes from the split of a message into its groups *)
IsSplit == pc = "features" /\ \A k \in 1..Len(feats) : feats[k].id.grp > 0

GroupOf(f) == msg.groups[f.id.grp]

AreaWords == {"AREA", "BOUNDED", "WITHIN", "RADIUS"}

HasAreaWord == \E w \in AreaWords : InText(w, msg.body)

(* C25: in a split message the geometry of a group is a Point for one    *)
(* coordinate; a Polygon for three or more when the body holds an area   *)
(* word, whatever the kind of the whole message; otherwise a LineString  *)
(* for two or more when the whole message is a linestring and a          *)
(* MultiPoint when it is not; two coordinates never give a Polygon.      *)
C25_GroupGeometryRules ==
    IsSplit =>
        \A k \in 1..Len(feats) :
            LET n == Len(GroupOf(feats[k]))
                type == feats[k].geometry.type
                area == n >= 3 /\ HasAreaWord
            IN  /\ n = 1 => type = "Point"
                /\ area => type = "Polygon"
                /\ (n >= 2 /\ ~area /\ msg.geometry = "linestring") => type = "LineString"
                /\ (n >= 2 /\ ~area /\ msg.geometry # "linestring") => type = "MultiPoint"
                /\ n = 2 => type # "Polygon"

(* a group of three coordinates is a Polygon in a linestring message, *)
(* next to a group of two that is a LineString                        *)
C25_Witness ==
    /\ IsSplit
    /\ msg.geometry = "linestring"
    /\ \E k \in 1..Len(feats) :
            Len(GroupOf(feats[k])) >= 3 /\ feats[k].geometry.type = "Polygon"
    /\ \E k \in 1..Len(feats) :
            Len(GroupOf(feats[k])) = 2 /\ feats[k].geometry.type = "LineString"

(* ====================== properties: polygon rings ====================== *)
Emitted ==
    IF pc = "geometry" THEN {geom}
    ELSE IF pc \in {"feature", "features", "serialized"}
    THEN {feats[i].geometry : i \in 1..Len(feats)}
    ELSE {}

(* C26: the ring of every Polygon emitted for a message or a group has *)
(* at least four positions: three vertices and the closing position.   *)
C26_RingHasFourPositions ==
    \A g \in Emitted : g.type = "Polygon" => Len(g.coordinates) >= 4

(* ================ properties: identifier and cancellations ============= *)
(* the cancellation target c names the identifier id in full *)
Names(c, id) == c.form = id.scheme /\ c.n = id.n /\ c.yy = id.yy

(* C27: the identifier of a message is never the target of one of the   *)
(* message's own cancellation references: an identifier that stands in  *)
(* a CANCEL statement is not taken as the identifier of the message.    *)
C27_IdentifierNotCancelled ==
    (pc = "from_text" /\ msg.msg_id # NoId) =>
        \A k \in 1..Len(msg.cancellations) : ~Names(msg.cancellations[k], msg.msg_id)

(* ===================== properties: files of messages =================== *)
OwnPath(m) == Path(OUTPUT_DIR, message_filename(m))

OwnPaths == {OwnPath(messages[i]) : i \in 1..Len(messages)}

(* C28: a run of store_messages creates or overwrites only the files of *)
(* the messages it stores: no file is deleted, no file of another       *)
(* identifier is modified, and so after the run the file of every       *)
(* message of the run is in place.                                      *)
C28_OnlyOwnFile ==
    [][Stored =>
            (/\ \A q \in DOMAIN files :
                    /\ q \in DOMAIN files'
                    /\ q \notin OwnPaths => files'[q] = files[q]
             /\ OwnPaths \subseteq DOMAIN files')]_vars

(* ================== properties: archiving of PRIP records ============== *)
(* the region whose page lists the record stored under a file name *)
RegionOf(name) ==
    CHOOSE r \in RegionSet : area_map(r) = name.id.scheme

(* the file names of the records the page of region r lists *)
ListedOn(r) ==
    {prip_filename(prip_from_text(pages[r][i].header, pages[r][i].text)) :
        i \in 1..Len(pages[r])}

Archived(q) == q.dir = prips_location /\ q \in DOMAIN files /\ q \notin DOMAIN files'

(* C29: a run of the PRIP scraper moves a stored record out of          *)
(* current/prips only if the page of its region was fetched in that run *)
(* and no longer lists it; the records the run lists stay.              *)
C29_ArchiveOnlyDelisted ==
    [][(pc = "scrape") =>
            (/\ \A q \in DOMAIN files :
                    Archived(q) => /\ RegionOf(q.name) \in fetched'
                                   /\ q.name \notin ListedOn(RegionOf(q.name))
             /\ \A r \in fetched' : \A name \in ListedOn(r) :
                    Path(prips_location, name) \in DOMAIN files')]_vars

(* ============ properties: self-cancellation and the evaluator ========== *)
(* the instant a self-cancellation statement names, in either notation *)
InstantOf(c) == parse_navwarn_dtg(DTG(c.d))

(* the statement gives an absolute date and time *)
IsSelfCancellation(c) ==
    c.form \in {"THIS MSG", "THIS MESSAGE", "THIS MSG UTC", "THIS MESSAGE UTC"} /\ c.d > 0

(* C30: every self-cancellation the parser captured with an absolute     *)
(* date and time, with Z or with UTC, is in cancellation_times of the    *)
(* evaluated feature, and is_cancelled holds at every instant at or      *)
(* after it.                                                             *)
C30_SelfCancellationRecognised ==
    pc = "evaluated" =>
        \A k \in 1..Len(msg.cancellations) :
            IsSelfCancellation(msg.cancellations[k]) =>
                /\ \E i \in 1..Len(evaluation.cancellation_times) :
                        evaluation.cancellation_times[i] = InstantOf(msg.cancellations[k])
                /\ now >= InstantOf(msg.cancellations[k]) => evaluation.is_cancelled

====
